---- MODULE Spec2Model ----
(***************************************************************************)
(* Control plane of investiga.ai-backend: the model catalog                *)
(* (RegistroModelos), the device monitor (MonitorGPU), the operation       *)
(* scheduler (AgendadorModelos) and the request queue (GerenciadorFilas),  *)
(* modelled as one state machine with one specification per subsystem.     *)
(***************************************************************************)
EXTENDS Integers, Sequences, FiniteSets, Bags, TLC

(***************************************************************************)
(* Bounds of the model                                                     *)
(***************************************************************************)
\* operations the callers of the scheduler create in one run
MaxOperacoes == 3
\* requests submitted to the queue
MaxRequisicoes == 2
\* iterations of the queue's monitor loop
MaxVarreduras == 1
\* subscribers added to the catalog with adicionar_callback_status
MaxAssinantes == 1
\* uses of one model the loaders record in the catalog
MaxUsos == 8
\* the last instant at which a caller of the catalog changes a status
MaxInstantes == 3
\* threads the callers of iniciar_monitoramento get started
MaxInicios == 2

(***************************************************************************)
(* Program constants                                                       *)
(***************************************************************************)
\* PrioridadeOperacao
BAIXA == 1
NORMAL == 5
ALTA == 8
CRITICA == 10
\* AgendadorModelos.__init__
max_operacoes_simultaneas == 2
margem_seguranca_memoria == 512
\* fator_preloading = 0.7, in tenths
fator_preloading == 7
\* margem_extra of _preload_modelo
margem_preload == 1024
\* Optional[int] = None for a device id
NoGpu == -1

\* the devices GPUtil reports, in the order of its list
GPUs == {0, 1}
\* memoryTotal of each device (MB)
MemoriaTotal == [g \in GPUs |-> IF g = 0 THEN 8192 ELSE 4608]

\* the catalog read at construction: name -> descriptor
CatalogoInicial ==
    [n \in {"phi3-vision-classificador", "llama3-8b-deconstrutor"} |->
        IF n = "phi3-vision-classificador"
        THEN [memoria_necessaria_mb |-> 4096, prioridade |-> 9, ultima_utilizacao |-> 0,
              total_utilizacoes |-> 0]
        ELSE [memoria_necessaria_mb |-> 6144, prioridade |-> 10, ultima_utilizacao |-> 0,
              total_utilizacoes |-> 0]]

\* StatusModelo
StatusModelo == {"descarregado", "carregando", "carregado", "descarregando",
                 "erro", "erro_memoria", "erro_arquivo"}
\* TipoOperacao
TipoOperacao == {"carregar", "descarregar", "reload", "preload"}

VARIABLES
    \* RegistroModelos
    modelos,              \* nome -> MetadadosModelo
    status_modelos,       \* nome -> StatusDetalhado
    gpu_alocacoes,        \* nome -> gpu_id (a dict: only the allocated names)
    callbacks_status,     \* len(callbacks_status): the subscribers of the catalog
    notificados,          \* the calls of the subscribers the last call of the catalog made
    excecao_registro,     \* the exception the last call of the catalog raised, or "None"
    \* MonitorGPU
    status_atual,         \* gpu_id -> StatusGPU of the last poll (empty before it)
    monitor_executando,   \* the Event executando of the monitor
    thread_monitor,       \* the Thread the monitor holds: 0 for None, else its number
    loops_vivos,          \* the _loop_monitoramento threads that are alive
    erro_monitor,         \* what the last reading of the devices logged, or "None"
    chamada_monitor,      \* the last call a caller made on the monitor, or "None"
    lock_monitor,         \* the thread that holds MonitorGPU._lock between steps, or 0
    callbacks_alerta,     \* len(callbacks_alerta): alert callbacks that query the monitor
    \* the device memory the backend really holds: nome -> gpu_id | NoGpu
    backend_residente,
    \* AgendadorModelos
    registro_expoe_StatusModelo, \* does the injected registro have .StatusModelo
    lock_agendador,       \* the holder of AgendadorModelos._lock between steps, or "None"
    pc_scheduler,         \* position of _loop_scheduler: "topo" or one of its sleeps
    fila_operacoes,       \* the heap, as the set of queued OperacaoModelo
    operacoes_executando, \* id_operacao -> OperacaoModelo
    operacoes_concluidas, \* history: what each finished operation reported
    threads_operacao,     \* uid -> [op, pc, gpu_id]: the _processar_operacao threads
    descartadas,          \* the operations _validar_operacao rejected, as its log tells
    callbacks_chamados,   \* the calls of operacao.callback, with their arguments
    proximo_uid,          \* object identity of the next OperacaoModelo
    \* GerenciadorFilas
    requisicoes,          \* historico_requisicoes: id -> Requisicao
    fila_pendentes,       \* the PriorityQueue, as the set of queued ids
    fila_aguardando_recurso, \* the list of parked requests
    requisicoes_ativas,   \* the keys of the dict of requests being processed
    processadores_ativos,
    max_concurrent,       \* the limit the GerenciadorFilas was built with
    estatisticas,         \* the four counters of EstatisticasFila
    historico_metricas,   \* len(historico_metricas): one entry per monitor iteration
    threads_requisicao,   \* id -> how many _processar_requisicao threads, by position
    pc_dispatcher,        \* position of _loop_dispatcher
    iterador,             \* index of the for loop of _processar_fila_aguardando
    processadas,          \* its local list
    cancelando,           \* ids a cancelar_requisicao call has read as cancellable
    retorno_cancelar,     \* what the last finished cancelar_requisicao returned
    relogio               \* time.time(), in milliseconds

varsRegistro == <<modelos, status_modelos, gpu_alocacoes, callbacks_status, notificados,
                  excecao_registro>>
varsThreadMonitor ==
    <<monitor_executando, thread_monitor, loops_vivos, erro_monitor, chamada_monitor,
      lock_monitor, callbacks_alerta>>
varsMonitor == <<status_atual, backend_residente, varsThreadMonitor>>
varsScheduler == <<lock_agendador, pc_scheduler>>
varsAgendador == <<registro_expoe_StatusModelo, varsScheduler, fila_operacoes,
                   operacoes_executando,
                   operacoes_concluidas, threads_operacao, descartadas,
                   callbacks_chamados, proximo_uid>>
varsFila == <<requisicoes, fila_pendentes, fila_aguardando_recurso, requisicoes_ativas,
              processadores_ativos, max_concurrent, estatisticas, historico_metricas, threads_requisicao,
              pc_dispatcher, iterador, processadas, cancelando, retorno_cancelar>>
vars == <<varsRegistro, varsMonitor, varsAgendador, varsFila, relogio>>

(***************************************************************************)
(* RegistroModelos                                                         *)
(***************************************************************************)
StatusDetalhado(status, timestamp, gpu_id, memoria_alocada_mb, erro_detalhes) ==
    [status |-> status, timestamp |-> timestamp, gpu_id |-> gpu_id,
     memoria_alocada_mb |-> memoria_alocada_mb, erro_detalhes |-> erro_detalhes]

\* the dict d without key k
SemChave(d, k) == [x \in (DOMAIN d) \ {k} |-> d[x]]

\* atualizar_status: the status record is replaced whole, whatever it held
StatusAposAtualizar(nome, novo_status, gpu_id, memoria_alocada_mb, erro_detalhes, agora) ==
    [status_modelos EXCEPT ![nome] =
        StatusDetalhado(novo_status, agora, gpu_id, memoria_alocada_mb, erro_detalhes)]

\* atualizar_status: the gpu_alocacoes bookkeeping
AlocacoesAposAtualizar(nome, novo_status, gpu_id) ==
    IF novo_status = "carregado" /\ gpu_id # NoGpu
    THEN (nome :> gpu_id) @@ gpu_alocacoes
    ELSE IF novo_status = "descarregado" /\ nome \in DOMAIN gpu_alocacoes
         THEN SemChave(gpu_alocacoes, nome)
         ELSE gpu_alocacoes

\* subscribers that are called twice each
_chamar_callbacks_status_duplo(nome, status_anterior, status_novo) ==
    [i \in 1..(2 * callbacks_status) |-> <<nome, status_anterior, status_novo>>]

\* _chamar_callbacks_status: every subscriber is called once, in the order
\* of the list, with (nome_modelo, status_anterior, status_novo)
_chamar_callbacks_status(nome, status_anterior, status_novo) ==
    [i \in 1..callbacks_status |-> <<nome, status_anterior, status_novo>>]

\* a catalog that lets an unregistered name pass in silence
ExcecaoNenhuma == "None"

\* what atualizar_status raises for a name that is not registered
ExcecaoNaoRegistrado == "ValueError"

\* atualizar_status at the instant agora: it raises for an unregistered name
\* before it changes anything, stamps the new record with the instant, and
\* notifies the subscribers when the status changed
atualizar_status(nome, novo_status, gpu_id, memoria_alocada_mb, erro_detalhes, agora) ==
    /\ IF nome \notin DOMAIN modelos
       THEN /\ excecao_registro' = ExcecaoNaoRegistrado
            /\ notificados' = <<>>
            /\ UNCHANGED <<status_modelos, gpu_alocacoes>>
       ELSE /\ status_modelos' = StatusAposAtualizar(nome, novo_status, gpu_id,
                                                     memoria_alocada_mb, erro_detalhes,
                                                     agora)
            /\ gpu_alocacoes' = AlocacoesAposAtualizar(nome, novo_status, gpu_id)
            /\ notificados' =
                  IF status_modelos[nome].status # novo_status
                  THEN _chamar_callbacks_status(nome, status_modelos[nome].status,
                                                novo_status)
                  ELSE <<>>
            /\ excecao_registro' = "None"
    /\ UNCHANGED callbacks_status

\* registrar_utilizacao: the last-used time and the counter of uses (the
\* averages are read by no decision of the control plane)
registrar_utilizacao(nome) ==
    modelos' = IF nome \in DOMAIN modelos
               THEN [modelos EXCEPT ![nome].ultima_utilizacao = relogio,
                                    ![nome].total_utilizacoes = @ + 1]
               ELSE modelos

\* registrar_modelo: the descriptor is stored under its name and the status
\* record is replaced by a fresh unloaded one; gpu_alocacoes is not touched
registrar_modelo(metadados_nome, metadados) ==
    /\ modelos' = (metadados_nome :> metadados) @@ modelos
    /\ status_modelos' =
          (metadados_nome :> StatusDetalhado("descarregado", relogio, NoGpu, 0, "None"))
          @@ status_modelos
    /\ notificados' = <<>>
    /\ excecao_registro' = "None"
    /\ UNCHANGED <<gpu_alocacoes, callbacks_status>>

\* adicionar_callback_status
adicionar_callback_status ==
    /\ callbacks_status < MaxAssinantes
    /\ callbacks_status' = callbacks_status + 1
    /\ UNCHANGED <<modelos, status_modelos, gpu_alocacoes, notificados, excecao_registro>>

(***************************************************************************)
(* MonitorGPU                                                              *)
(***************************************************************************)
RECURSIVE SomaMemoria(_, _)
SomaMemoria(nomes, mem) ==
    IF nomes = {} THEN 0
    ELSE LET n == CHOOSE x \in nomes : TRUE
         IN mem[n] + SomaMemoria(nomes \ {n}, mem)

\* memoryUsed the device reports: what the backend holds on it
MemoriaUsadaReal(g) ==
    SomaMemoria({n \in DOMAIN backend_residente : backend_residente[n] = g},
                [n \in DOMAIN modelos |-> modelos[n].memoria_necessaria_mb])

\* _atualizar_status: one poll overwrites every device's snapshot
AtualizarStatusGPU ==
    /\ status_atual' = [g \in GPUs |->
            [memoria_total_mb |-> MemoriaTotal[g],
             memoria_usada_mb |-> MemoriaUsadaReal(g),
             memoria_livre_mb |-> MemoriaTotal[g] - MemoriaUsadaReal(g)]]
    /\ status_atual' # status_atual
    /\ UNCHANGED <<varsRegistro, backend_residente, varsThreadMonitor, varsAgendador,
                   varsFila, relogio>>

\* what GPUtil reports when it can be read, other processes holding outros
StatusLido(outros) ==
    [g \in GPUs |->
        LET usada == IF MemoriaUsadaReal(g) + outros[g] > MemoriaTotal[g]
                     THEN MemoriaTotal[g]
                     ELSE MemoriaUsadaReal(g) + outros[g]
        IN [memoria_total_mb |-> MemoriaTotal[g],
            memoria_usada_mb |-> usada,
            memoria_livre_mb |-> MemoriaTotal[g] - usada]]

\* what _obter_gpus_disponiveis logs when GPUtil.getGPUs raises
ErroAoObterGPUs == "Erro ao obter GPUs"

\* a monitor that takes a failed reading for devices without memory
StatusZerado ==
    [g \in DOMAIN status_atual |->
        [memoria_total_mb |-> 0, memoria_usada_mb |-> 0, memoria_livre_mb |-> 0]]

\* _atualizar_status when GPUtil.getGPUs raises: _obter_gpus_disponiveis
\* returns [], the for loop writes nothing
StatusAposFalha == status_atual

\* is the Thread the monitor holds alive
ThreadViva == thread_monitor \in loops_vivos

\* iniciar_monitoramento: it returns at once when its thread is alive, and
\* after the log when no device can be read; otherwise it sets the Event and
\* starts a new thread
iniciar_monitoramento(leitura_ok) ==
    /\ chamada_monitor' = "iniciar_monitoramento"
    /\ IF ThreadViva
       THEN UNCHANGED <<monitor_executando, thread_monitor, loops_vivos, erro_monitor>>
       ELSE IF ~leitura_ok
       THEN /\ erro_monitor' = ErroAoObterGPUs
            /\ UNCHANGED <<monitor_executando, thread_monitor, loops_vivos>>
       ELSE /\ thread_monitor < MaxInicios
            /\ monitor_executando' = TRUE
            /\ thread_monitor' = thread_monitor + 1
            /\ loops_vivos' = loops_vivos \cup {thread_monitor + 1}
            /\ erro_monitor' = "None"
    /\ UNCHANGED <<varsRegistro, status_atual, backend_residente, lock_monitor,
                   callbacks_alerta, varsAgendador, varsFila, relogio>>

\* parar_monitoramento: the Event is cleared and the thread joined for five
\* seconds at most; the thread has ended by then (terminou) or is still in
\* its iteration
parar_monitoramento(terminou) ==
    /\ terminou => lock_monitor = 0
    /\ chamada_monitor' = "parar_monitoramento"
    /\ monitor_executando' = FALSE
    /\ loops_vivos' = IF terminou THEN loops_vivos \ {thread_monitor} ELSE loops_vivos
    /\ UNCHANGED <<varsRegistro, status_atual, backend_residente, thread_monitor,
                   erro_monitor, lock_monitor, callbacks_alerta, varsAgendador, varsFila,
                   relogio>>

\* the memory threshold of _verificar_thresholds that raises an alert, in
\* percent of the memory of the device
threshold_memoria_alto == 75

\* _verificar_thresholds emits a memory alert for a device of the snapshot
AlertaDeMemoria(status) ==
    \E g \in DOMAIN status :
        /\ status[g].memoria_total_mb > 0
        /\ 100 * status[g].memoria_usada_mb
              >= threshold_memoria_alto * status[g].memoria_total_mb

\* _verificar_thresholds over the snapshot, by the thread id: it holds the
\* lock while _emitir_alerta calls the callbacks, and a callback that calls
\* obter_status_gpu waits for that lock, a threading.Lock, on the same thread
LockAposThresholds(id, status) ==
    IF callbacks_alerta > 0 /\ AlertaDeMemoria(status) THEN id ELSE 0

\* an iteration of _loop_monitoramento in which the devices are read
LoopMonitoramentoLer(id, outros) ==
    /\ id \in loops_vivos
    /\ monitor_executando
    /\ lock_monitor = 0
    /\ status_atual' = StatusLido(outros)
    /\ erro_monitor' = "None"
    /\ lock_monitor' = LockAposThresholds(id, StatusLido(outros))
    /\ UNCHANGED <<varsRegistro, backend_residente, monitor_executando, thread_monitor,
                   loops_vivos, chamada_monitor, callbacks_alerta, varsAgendador, varsFila,
                   relogio>>

\* an iteration of _loop_monitoramento in which GPUtil.getGPUs raises
LoopMonitoramentoFalha(id) ==
    /\ id \in loops_vivos
    /\ monitor_executando
    /\ lock_monitor = 0
    /\ status_atual' = StatusAposFalha
    /\ erro_monitor' = ErroAoObterGPUs
    /\ lock_monitor' = LockAposThresholds(id, StatusAposFalha)
    /\ UNCHANGED <<varsRegistro, backend_residente, monitor_executando, thread_monitor,
                   loops_vivos, chamada_monitor, callbacks_alerta, varsAgendador, varsFila,
                   relogio>>

\* _loop_monitoramento finds the Event cleared and returns
LoopMonitoramentoSair(id) ==
    /\ id \in loops_vivos
    /\ ~monitor_executando
    /\ lock_monitor = 0
    /\ loops_vivos' = loops_vivos \ {id}
    /\ UNCHANGED <<varsRegistro, status_atual, backend_residente, monitor_executando,
                   thread_monitor, erro_monitor, chamada_monitor, lock_monitor,
                   callbacks_alerta, varsAgendador, varsFila, relogio>>

\* adicionar_callback_alerta, with a callback that asks the monitor for the
\* status of the device of the alert
adicionar_callback_alerta ==
    /\ callbacks_alerta < MaxAssinantes
    /\ callbacks_alerta' = callbacks_alerta + 1
    /\ UNCHANGED <<varsRegistro, status_atual, backend_residente, monitor_executando,
                   thread_monitor, loops_vivos, erro_monitor, chamada_monitor,
                   lock_monitor, varsAgendador, varsFila, relogio>>

\* a best fit: the device with room that has the least memory free
obter_gpu_melhor_ajuste(memoria_necessaria_mb) ==
    LET cabem == {g \in DOMAIN status_atual :
                    status_atual[g].memoria_livre_mb >= memoria_necessaria_mb}
    IN IF cabem = {} THEN NoGpu
       ELSE CHOOSE g \in cabem :
               \A h \in cabem : status_atual[g].memoria_livre_mb
                                   <= status_atual[h].memoria_livre_mb

\* obter_gpu_com_memoria_suficiente: first device in dict order with room
obter_gpu_com_memoria_suficiente(memoria_necessaria_mb) ==
    LET cabem == {g \in DOMAIN status_atual :
                    status_atual[g].memoria_livre_mb >= memoria_necessaria_mb}
    IN IF cabem = {} THEN NoGpu
       ELSE CHOOSE g \in cabem : \A h \in cabem : g <= h

\* memoria_suficiente_para_modelo
memoria_suficiente_para_modelo(id_gpu, memoria_necessaria_mb) ==
    /\ id_gpu \in DOMAIN status_atual
    /\ status_atual[id_gpu].memoria_livre_mb >= memoria_necessaria_mb

(***************************************************************************)
(* AgendadorModelos: the operations and their queue                        *)
(***************************************************************************)
\* OperacaoModelo as solicitar_modelo, descarregar_modelo and preload_preditivo
\* build it; uid stands for the identity of the Python object
NovaOperacao(tipo, nome_modelo, prioridade, gpu_preferida, callback, agora) ==
    [uid |-> proximo_uid, tipo |-> tipo, nome_modelo |-> nome_modelo,
     prioridade |-> prioridade, timestamp_criacao |-> agora,
     gpu_preferida |-> gpu_preferida, callback |-> callback]

\* id_operacao: f"load_{nome_modelo}_{int(time.time()*1000)}" and its siblings
IdOperacao(op) == <<op.tipo, op.nome_modelo, op.timestamp_criacao>>

\* an order by arrival alone
OperacaoLtSoChegada(a, b) == a.timestamp_criacao < b.timestamp_criacao

\* OperacaoModelo.__lt__
OperacaoLt(a, b) ==
    IF a.prioridade # b.prioridade
    THEN a.prioridade > b.prioridade
    ELSE a.timestamp_criacao < b.timestamp_criacao

\* heapq.heappop returns an element no other element is less than
HeapPop(op, fila) == op \in fila /\ \A outra \in fila : ~OperacaoLt(outra, op)

\* what time.time() may return at a call: the instant of the last call or a
\* later one (an instant is a millisecond, the resolution of id_operacao)
Agora == {relogio, relogio + 1}

\* heapq.heappush under the lock; op was stamped with time.time()
Enfileirar(op) ==
    /\ lock_agendador = "None"
    /\ proximo_uid <= MaxOperacoes
    /\ fila_operacoes' = fila_operacoes \cup {op}
    /\ proximo_uid' = proximo_uid + 1
    /\ relogio' = op.timestamp_criacao
    /\ UNCHANGED <<varsRegistro, varsMonitor, registro_expoe_StatusModelo, varsScheduler,
                   operacoes_executando, operacoes_concluidas, threads_operacao,
                   descartadas, callbacks_chamados, varsFila>>

\* solicitar_modelo
solicitar_modelo(nome_modelo, prioridade, gpu_preferida, callback, agora) ==
    Enfileirar(NovaOperacao("carregar", nome_modelo, prioridade, gpu_preferida,
                            callback, agora))

\* descarregar_modelo
descarregar_modelo(nome_modelo, prioridade, callback, agora) ==
    Enfileirar(NovaOperacao("descarregar", nome_modelo, prioridade, NoGpu,
                            callback, agora))

\* a threshold that the probability may also equal
NoLimiarOuAcima(probabilidade) == probabilidade >= fator_preloading

\* the test of preload_preditivo: probabilidade in tenths
AcimaDoLimiar(probabilidade) == probabilidade > fator_preloading

\* preload_preditivo: below the threshold the call returns at once
preload_preditivo(nome_modelo, probabilidade, agora) ==
    IF AcimaDoLimiar(probabilidade)
    THEN Enfileirar(NovaOperacao("preload", nome_modelo, BAIXA, NoGpu, FALSE, agora))
    ELSE UNCHANGED vars

(***************************************************************************)
(* AgendadorModelos._loop_monitor                                          *)
(***************************************************************************)
\* tempo_inatividade_descarregar, five minutes, in milliseconds
tempo_inatividade_descarregar == 300 * 1000

\* obter_modelos_carregados
obter_modelos_carregados ==
    {n \in DOMAIN status_modelos : status_modelos[n].status = "carregado"}

\* a sweep that finds no model idle
InativoNunca(tempo_inativo) == FALSE

\* the test _verificar_inatividade makes on the idle time of a model
Inativo(tempo_inativo) == tempo_inativo > tempo_inatividade_descarregar

\* _verificar_inatividade: the loaded models it asks to unload
Inativos(agora) ==
    {n \in obter_modelos_carregados :
        /\ n \in DOMAIN modelos
        /\ modelos[n].ultima_utilizacao > 0
        /\ Inativo(agora - modelos[n].ultima_utilizacao)}

\* obter_estatisticas_resumo: the sum of a field over the devices of the snapshot
RECURSIVE SomaStatus(_, _)
SomaStatus(gs, campo) ==
    IF gs = {} THEN 0
    ELSE LET g == CHOOSE x \in gs : TRUE
         IN status_atual[g][campo] + SomaStatus(gs \ {g}, campo)

memoria_total_sistema == SomaStatus(DOMAIN status_atual, "memoria_total_mb")
memoria_usada_sistema == SomaStatus(DOMAIN status_atual, "memoria_usada_mb")

\* stats_gpu.get("percentual_memoria_usada", 0) > limite, in whole numbers;
\* the resume of a monitor without snapshot has no such key
PercentualAcima(limite) ==
    /\ memoria_total_sistema > 0
    /\ memoria_usada_sistema * 100 > limite * memoria_total_sistema

\* stats_gpu.get("percentual_memoria_usada", 0) < limite
PercentualAbaixo(limite) ==
    \/ memoria_total_sistema = 0
    \/ memoria_usada_sistema * 100 < limite * memoria_total_sistema

\* the order of Python's str on the names of the catalogs
OrdemAlfabetica ==
    <<"llama3-8b-deconstrutor", "phi3-vision-classificador", "phi3-vision-legendas",
      "phi3-vision-ocr">>

PosicaoNome(nome) == CHOOSE i \in 1..Len(OrdemAlfabetica) : OrdemAlfabetica[i] = nome

\* the order of the tuples (ultima_utilizacao, nome, prioridade) under list.sort
TuplaLt(a, b) ==
    \/ modelos[a].ultima_utilizacao < modelos[b].ultima_utilizacao
    \/ /\ modelos[a].ultima_utilizacao = modelos[b].ultima_utilizacao
       /\ PosicaoNome(a) < PosicaoNome(b)

\* modelos_ordenados of _otimizar_memoria, as the sequence of the names
RECURSIVE Ordenados(_)
Ordenados(nomes) ==
    IF nomes = {} THEN <<>>
    ELSE LET primeiro == CHOOSE n \in nomes : \A o \in nomes \ {n} : TuplaLt(n, o)
         IN <<primeiro>> \o Ordenados(nomes \ {primeiro})

\* a sweep that spares no priority
DescarregavelSempre(prioridade) == TRUE

\* the test _otimizar_memoria makes on the priority of a model
Descarregavel(prioridade) == prioridade < 8

\* the for loop of _otimizar_memoria over modelos_ordenados: it reads the
\* percentage from the stats_gpu taken before the loop
RECURSIVE ParaDescarregar(_)
ParaDescarregar(ordenados) ==
    IF ordenados = <<>> \/ PercentualAbaixo(70) THEN <<>>
    ELSE IF Descarregavel(modelos[Head(ordenados)].prioridade)
         THEN <<Head(ordenados)>> \o ParaDescarregar(Tail(ordenados))
         ELSE ParaDescarregar(Tail(ordenados))

\* _otimizar_memoria: the models it asks to unload, in the order of the calls
OtimizarMemoria ==
    IF PercentualAcima(85)
    THEN ParaDescarregar(Ordenados(obter_modelos_carregados \cap DOMAIN modelos))
    ELSE <<>>

\* the calls of descarregar_modelo one iteration of _loop_monitor makes: those
\* of _verificar_inatividade at BAIXA, then those of _otimizar_memoria at
\* NORMAL (the order of the first ones shows only in the identity of the
\* operations)
PedidosDoMonitor(agora) ==
    LET inativos == Ordenados(Inativos(agora))
        memoria == OtimizarMemoria
    IN [i \in 1..Len(inativos) |-> [nome_modelo |-> inativos[i], prioridade |-> BAIXA]]
       \o [i \in 1..Len(memoria) |-> [nome_modelo |-> memoria[i], prioridade |-> NORMAL]]

\* one iteration of _loop_monitor that asks for something: _verificar_timeouts
\* only logs, historico_uso is never filled, so _executar_preloading_preditivo
\* finds nothing, and _limpar_caches touches only the cache
LoopMonitorAgendador(agora) ==
    LET pedidos == PedidosDoMonitor(agora) IN
    /\ pedidos # <<>>
    /\ lock_agendador = "None"
    /\ proximo_uid + Len(pedidos) - 1 <= MaxOperacoes
    /\ fila_operacoes' = fila_operacoes \cup
          {[uid |-> proximo_uid + i - 1, tipo |-> "descarregar",
            nome_modelo |-> pedidos[i].nome_modelo,
            prioridade |-> pedidos[i].prioridade, timestamp_criacao |-> agora,
            gpu_preferida |-> NoGpu, callback |-> FALSE] : i \in 1..Len(pedidos)}
    /\ proximo_uid' = proximo_uid + Len(pedidos)
    /\ relogio' = agora
    /\ UNCHANGED <<varsRegistro, varsMonitor, registro_expoe_StatusModelo, varsScheduler,
                   operacoes_executando, operacoes_concluidas, threads_operacao,
                   descartadas, callbacks_chamados, varsFila>>

\* historico_uso: the defaultdict built by __init__, which no statement of
\* the repository writes to
historico_uso == [n \in {} |-> <<>>]

\* usos_recentes of _executar_preloading_preditivo: the entries of the last hour
UsosRecentes(historico, agora) ==
    Cardinality({i \in 1..Len(historico) : agora - historico[i] < 3600 * 1000})

\* min(len(usos_recentes) / 10.0, 0.9), in tenths
ProbabilidadeDeUso(usos) == IF usos < 9 THEN usos ELSE 9

\* _executar_preloading_preditivo: the models it calls preload_preditivo for
PreloadsPreditivos(agora) ==
    {n \in DOMAIN historico_uso :
        /\ Len(historico_uso[n]) >= 3
        /\ UsosRecentes(historico_uso[n], agora) >= 2
        /\ n \in DOMAIN status_modelos
        /\ status_modelos[n].status = "descarregado"}

\* an iteration of _loop_monitor, after its time.sleep(30.0), that finds no
\* model to unload: the calls of preload_preditivo enqueue the preloads whose
\* probability is above the threshold
LoopMonitorPreditivo(agora) ==
    LET nomes == Ordenados({n \in PreloadsPreditivos(agora) :
                    AcimaDoLimiar(ProbabilidadeDeUso(
                        UsosRecentes(historico_uso[n], agora)))})
    IN /\ PedidosDoMonitor(agora) = <<>>
       /\ proximo_uid + Len(nomes) - 1 <= MaxOperacoes
       /\ fila_operacoes' = fila_operacoes \cup
             {[uid |-> proximo_uid + i - 1, tipo |-> "preload",
               nome_modelo |-> nomes[i], prioridade |-> BAIXA,
               timestamp_criacao |-> agora, gpu_preferida |-> NoGpu,
               callback |-> FALSE] : i \in 1..Len(nomes)}
       /\ proximo_uid' = proximo_uid + Len(nomes)
       /\ relogio' = agora
       /\ UNCHANGED <<varsRegistro, varsMonitor, registro_expoe_StatusModelo, varsScheduler,
                      operacoes_executando, operacoes_concluidas, threads_operacao,
                      descartadas, callbacks_chamados, varsFila>>

(***************************************************************************)
(* AgendadorModelos._loop_scheduler                                        *)
(***************************************************************************)
\* the test that opens an iteration of _loop_scheduler
AbaixoDoLimite ==
    Cardinality(DOMAIN operacoes_executando) < max_operacoes_simultaneas

\* a validation that lets a load of a loaded model through
_validar_operacao_sem_carregar(op) ==
    /\ op.nome_modelo \in DOMAIN modelos
    /\ op.nome_modelo \in DOMAIN status_modelos
    /\ op.tipo = "descarregar" =>
          status_modelos[op.nome_modelo].status \notin {"descarregado", "descarregando"}

\* _validar_operacao
_validar_operacao(op) ==
    /\ op.nome_modelo \in DOMAIN modelos
    /\ op.nome_modelo \in DOMAIN status_modelos
    /\ op.tipo = "carregar" =>
          status_modelos[op.nome_modelo].status \notin {"carregado", "carregando"}
    /\ op.tipo = "descarregar" =>
          status_modelos[op.nome_modelo].status \notin {"descarregado", "descarregando"}

\* _loop_scheduler: below the cap, the head of the heap is popped and, being
\* no longer applicable, dropped
LoopSchedulerDescartar ==
    /\ pc_scheduler = "topo"
    /\ lock_agendador = "None"
    /\ AbaixoDoLimite
    /\ \E op \in fila_operacoes :
          /\ HeapPop(op, fila_operacoes)
          /\ ~_validar_operacao(op)
          /\ fila_operacoes' = fila_operacoes \ {op}
          /\ descartadas' = descartadas \cup
                {[uid |-> op.uid, tipo |-> op.tipo, nome_modelo |-> op.nome_modelo,
                  status |-> IF op.nome_modelo \in DOMAIN status_modelos
                             THEN status_modelos[op.nome_modelo].status
                             ELSE "None"]}
    /\ UNCHANGED <<varsRegistro, varsMonitor, registro_expoe_StatusModelo, varsScheduler,
                   operacoes_executando, operacoes_concluidas, threads_operacao,
                   callbacks_chamados, proximo_uid, varsFila, relogio>>

\* _loop_scheduler and _executar_operacao: below the cap, the head of the heap
\* is popped, found applicable, registered under its id, and its thread started
LoopSchedulerExecutar ==
    /\ pc_scheduler = "topo"
    /\ lock_agendador = "None"
    /\ AbaixoDoLimite
    /\ \E op \in fila_operacoes :
          /\ HeapPop(op, fila_operacoes)
          /\ _validar_operacao(op)
          /\ fila_operacoes' = fila_operacoes \ {op}
          /\ operacoes_executando' = (IdOperacao(op) :> op) @@ operacoes_executando
          /\ threads_operacao' =
                (op.uid :> [op |-> op, pc |-> "inicio", gpu_id |-> NoGpu])
                @@ threads_operacao
    /\ UNCHANGED <<varsRegistro, varsMonitor, registro_expoe_StatusModelo, varsScheduler,
                   operacoes_concluidas, descartadas, callbacks_chamados, proximo_uid,
                   varsFila, relogio>>

\* what the steps of the sleeping loop leave alone
ForaDoScheduler ==
    <<varsRegistro, varsMonitor, registro_expoe_StatusModelo, fila_operacoes,
      operacoes_executando, operacoes_concluidas, threads_operacao, descartadas,
      callbacks_chamados, proximo_uid, varsFila, relogio>>

\* _loop_scheduler at the cap: time.sleep(0.5) before any lock is taken
LoopSchedulerDormirNoLimite ==
    /\ pc_scheduler = "topo"
    /\ ~AbaixoDoLimite
    /\ pc_scheduler' = "sleep_limite"
    /\ UNCHANGED <<lock_agendador, ForaDoScheduler>>

\* _loop_scheduler with an empty heap: time.sleep(1.0) inside the with block
LoopSchedulerDormirFilaVazia ==
    /\ pc_scheduler = "topo"
    /\ lock_agendador = "None"
    /\ AbaixoDoLimite
    /\ fila_operacoes = {}
    /\ lock_agendador' = "_loop_scheduler"
    /\ pc_scheduler' = "sleep_fila_vazia"
    /\ UNCHANGED ForaDoScheduler

\* the sleep ends and continue leaves the with block, if the loop is in one
LoopSchedulerAcordar ==
    /\ pc_scheduler \in {"sleep_limite", "sleep_fila_vazia"}
    /\ pc_scheduler' = "topo"
    /\ lock_agendador' = "None"
    /\ UNCHANGED ForaDoScheduler

(***************************************************************************)
(* AgendadorModelos._processar_operacao: one thread per executed operation *)
(***************************************************************************)
\* a choice that does not look at the preferred device
_escolher_gpu_sem_preferida(metadados, gpu_preferida, margem_extra) ==
    obter_gpu_com_memoria_suficiente(metadados.memoria_necessaria_mb
                                     + margem_seguranca_memoria + margem_extra)

\* _escolher_gpu
_escolher_gpu(metadados, gpu_preferida, margem_extra) ==
    LET memoria_necessaria == metadados.memoria_necessaria_mb
                              + margem_seguranca_memoria + margem_extra
    IN IF gpu_preferida # NoGpu
          /\ memoria_suficiente_para_modelo(gpu_preferida, memoria_necessaria)
       THEN gpu_preferida
       ELSE obter_gpu_com_memoria_suficiente(memoria_necessaria)

\* the finally block of _processar_operacao: leave the in-flight dict, enter
\* the history, call the callback with (sucesso, nome_modelo, erro)
Finalizar(op, sucesso, erro) ==
    /\ lock_agendador = "None"
    /\ operacoes_executando' =
          IF IdOperacao(op) \in DOMAIN operacoes_executando
          THEN SemChave(operacoes_executando, IdOperacao(op))
          ELSE operacoes_executando
    /\ operacoes_concluidas' =
          operacoes_concluidas \cup {[uid |-> op.uid, tipo |-> op.tipo,
                                     nome_modelo |-> op.nome_modelo,
                                     prioridade |-> op.prioridade,
                                     sucesso |-> sucesso, erro |-> erro]}
    /\ callbacks_chamados' =
          IF op.callback
          THEN callbacks_chamados (+) SetToBag({[uid |-> op.uid, sucesso |-> sucesso,
                                                nome_modelo |-> op.nome_modelo,
                                                erro |-> erro]})
          ELSE callbacks_chamados
    /\ threads_operacao' = SemChave(threads_operacao, op.uid)

\* the thread moves to the backend step with the device it chose
ThreadNoBackend(op, gpu_id) ==
    /\ threads_operacao' =
          [threads_operacao EXCEPT ![op.uid] = [op |-> op, pc |-> "backend", gpu_id |-> gpu_id]]
    /\ UNCHANGED <<operacoes_executando, operacoes_concluidas, callbacks_chamados>>

\* _preload_modelo lets the load go on only with room for the larger margin
PreloadTemRecursos(op) ==
    op.tipo = "preload" =>
        _escolher_gpu(modelos[op.nome_modelo], NoGpu, margem_preload) # NoGpu

\* _carregar_modelo, lines 376-393 (through _preload_modelo for a preload)
CarregarModeloInicio(uid) ==
    /\ uid \in DOMAIN threads_operacao
    /\ threads_operacao[uid].pc = "inicio"
    /\ LET op == threads_operacao[uid].op
           gpu_id == _escolher_gpu(modelos[op.nome_modelo], op.gpu_preferida, 0)
       IN /\ op.tipo \in {"carregar", "preload"}
          /\ IF ~PreloadTemRecursos(op) \/ gpu_id = NoGpu
             THEN \* return False: no device, nothing is touched
                  /\ Finalizar(op, FALSE, "None")
                  /\ UNCHANGED varsRegistro
             ELSE IF ~registro_expoe_StatusModelo
             THEN \* self.registro.StatusModelo raises in the try and again in
                  \* the except: the exception reaches _processar_operacao
                  /\ Finalizar(op, FALSE, "AttributeError")
                  /\ UNCHANGED varsRegistro
             ELSE /\ atualizar_status(op.nome_modelo, "carregando", gpu_id, 0, "None", relogio)
                  /\ ThreadNoBackend(op, gpu_id)
                  /\ UNCHANGED modelos
    /\ UNCHANGED <<varsMonitor, registro_expoe_StatusModelo, varsScheduler, fila_operacoes,
                   descartadas, proximo_uid, varsFila, relogio>>

\* _carregar_modelo, lines 397-413: the backend loaded the model
CarregarModeloSucesso(uid) ==
    /\ uid \in DOMAIN threads_operacao
    /\ threads_operacao[uid].pc = "backend"
    /\ LET op == threads_operacao[uid].op
           gpu_id == threads_operacao[uid].gpu_id
       IN /\ op.tipo \in {"carregar", "preload"}
          /\ backend_residente' = [backend_residente EXCEPT ![op.nome_modelo] = gpu_id]
          /\ atualizar_status(op.nome_modelo, "carregado", gpu_id,
                              modelos[op.nome_modelo].memoria_necessaria_mb, "None",
                              relogio)
          /\ registrar_utilizacao(op.nome_modelo)
          /\ Finalizar(op, TRUE, "None")
    /\ UNCHANGED <<status_atual, varsThreadMonitor, registro_expoe_StatusModelo, varsScheduler,
                   fila_operacoes,
                   descartadas, proximo_uid, varsFila, relogio>>

\* _carregar_modelo, lines 415-422: the backend step raised
CarregarModeloFalha(uid) ==
    /\ uid \in DOMAIN threads_operacao
    /\ threads_operacao[uid].pc = "backend"
    /\ LET op == threads_operacao[uid].op
       IN /\ op.tipo \in {"carregar", "preload"}
          /\ atualizar_status(op.nome_modelo, "erro", NoGpu, 0, "falha do backend",
                              relogio)
          /\ Finalizar(op, FALSE, "falha do backend")
    /\ UNCHANGED <<modelos, varsMonitor, registro_expoe_StatusModelo, varsScheduler, fila_operacoes,
                   descartadas, proximo_uid, varsFila, relogio>>

\* _descarregar_modelo, lines 426-436
DescarregarModeloInicio(uid) ==
    /\ uid \in DOMAIN threads_operacao
    /\ threads_operacao[uid].pc = "inicio"
    /\ LET op == threads_operacao[uid].op
       IN /\ op.tipo = "descarregar"
          /\ IF ~registro_expoe_StatusModelo
             THEN /\ Finalizar(op, FALSE, "AttributeError")
                  /\ UNCHANGED varsRegistro
             ELSE /\ atualizar_status(op.nome_modelo, "descarregando", NoGpu, 0, "None",
                                  relogio)
                  /\ ThreadNoBackend(op, NoGpu)
                  /\ UNCHANGED modelos
    /\ UNCHANGED <<varsMonitor, registro_expoe_StatusModelo, varsScheduler, fila_operacoes,
                   descartadas, proximo_uid, varsFila, relogio>>

\* _descarregar_modelo, lines 438-449: the backend released the model
DescarregarModeloSucesso(uid) ==
    /\ uid \in DOMAIN threads_operacao
    /\ threads_operacao[uid].pc = "backend"
    /\ LET op == threads_operacao[uid].op
       IN /\ op.tipo = "descarregar"
          /\ backend_residente' = [backend_residente EXCEPT ![op.nome_modelo] = NoGpu]
          /\ atualizar_status(op.nome_modelo, "descarregado", NoGpu, 0, "None", relogio)
          /\ Finalizar(op, TRUE, "None")
    /\ UNCHANGED <<modelos, status_atual, varsThreadMonitor,
                   registro_expoe_StatusModelo, varsScheduler, fila_operacoes,
                   descartadas, proximo_uid, varsFila, relogio>>

\* _descarregar_modelo, lines 451-457: the backend step raised
DescarregarModeloFalha(uid) ==
    /\ uid \in DOMAIN threads_operacao
    /\ threads_operacao[uid].pc = "backend"
    /\ LET op == threads_operacao[uid].op
       IN /\ op.tipo = "descarregar"
          /\ atualizar_status(op.nome_modelo, "erro", NoGpu, 0, "falha do backend",
                              relogio)
          /\ Finalizar(op, FALSE, "falha do backend")
    /\ UNCHANGED <<modelos, varsMonitor, registro_expoe_StatusModelo, varsScheduler, fila_operacoes,
                   descartadas, proximo_uid, varsFila, relogio>>

(***************************************************************************)
(* fila_requisicoes.py: GerenciadorFilas                                   *)
(***************************************************************************)
StatusRequisicao == {"pendente", "aguardando_recurso", "processando", "concluida",
                     "erro", "cancelada", "timeout"}
TipoRequisicao == {"fact_check_completo", "fact_check_rapido",
                   "processamento_arquivo", "analise_custom"}

\* Requisicao.timeout, five minutes, in milliseconds
timeout_padrao == 300 * 1000
\* the waiting time after which _otimizar_filas raises a priority
espera_maxima == 300 * 1000
\* a field that holds None
SemTempo == -1

\* _estimar_recursos_necessarios, for textual content
modelos_necessarios(tipo) ==
    CASE tipo = "fact_check_completo" ->
            {"gemma-2b-recepcionista", "phi3-vision-classificador",
             "llama3-8b-deconstrutor", "llama3-8b-sintetizador",
             "gemma-2b-apresentador"}
      [] tipo = "fact_check_rapido" ->
            {"gemma-2b-recepcionista", "phi3-vision-classificador"}
      [] tipo = "processamento_arquivo" -> {"gemma-2b-recepcionista"}
      [] OTHER -> {}

memoria_estimada_mb(tipo) ==
    CASE tipo = "fact_check_completo" -> 8192
      [] tipo = "fact_check_rapido" -> 4096
      [] tipo = "processamento_arquivo" -> 2048
      [] OTHER -> 0

Requisicao(tipo, prioridade, timeout, agora) ==
    [status |-> "pendente", tipo_requisicao |-> tipo, prioridade |-> prioridade,
     timestamp_criacao |-> agora, timestamp_inicio |-> SemTempo,
     timestamp_conclusao |-> SemTempo, timeout |-> timeout, erro |-> "None",
     modelos_necessarios |-> modelos_necessarios(tipo),
     memoria_estimada_mb |-> memoria_estimada_mb(tipo)]

\* Requisicao.__lt__
RequisicaoLt(a, b) ==
    IF a.prioridade # b.prioridade
    THEN a.prioridade > b.prioridade
    ELSE a.timestamp_criacao < b.timestamp_criacao

\* adicionar_requisicao: the new request gets a fresh uuid
adicionar_requisicao(tipo, prioridade, timeout, agora) ==
    LET id == Cardinality(DOMAIN requisicoes) + 1 IN
    /\ id <= MaxRequisicoes
    /\ requisicoes' = (id :> Requisicao(tipo, prioridade, timeout, agora)) @@ requisicoes
    /\ fila_pendentes' = fila_pendentes \cup {id}
    /\ relogio' = agora
    /\ UNCHANGED <<varsRegistro, varsMonitor, varsAgendador, fila_aguardando_recurso,
                   requisicoes_ativas, processadores_ativos, max_concurrent, estatisticas,
                   historico_metricas, threads_requisicao, pc_dispatcher, iterador,
                   processadas, cancelando, retorno_cancelar>>

\* obter_estatisticas_resumo()["memoria_livre_sistema"], 0 when the resume is
\* the error record of a monitor that has not polled yet
RECURSIVE SomaLivre(_)
SomaLivre(gs) ==
    IF gs = {} THEN 0
    ELSE LET g == CHOOSE x \in gs : TRUE IN
         (status_atual[g].memoria_total_mb - status_atual[g].memoria_usada_mb)
            + SomaLivre(gs \ {g})

memoria_livre_sistema == SomaLivre(DOMAIN status_atual)

_verificar_recursos_disponiveis(id) ==
    ~(memoria_livre_sistema < requisicoes[id].memoria_estimada_mb)

\* list.sort(reverse=True) under Requisicao.__lt__: a stable insertion that
\* puts what __lt__ calls smaller last
RECURSIVE InserirReverso(_, _)
InserirReverso(ordenada, id) ==
    IF ordenada = <<>> THEN <<id>>
    ELSE LET ultimo == ordenada[Len(ordenada)] IN
         IF RequisicaoLt(requisicoes[ultimo], requisicoes[id])
         THEN Append(InserirReverso(SubSeq(ordenada, 1, Len(ordenada) - 1), id), ultimo)
         ELSE Append(ordenada, id)

RECURSIVE SortReverso(_)
SortReverso(lista) ==
    IF lista = <<>> THEN <<>>
    ELSE InserirReverso(SortReverso(SubSeq(lista, 1, Len(lista) - 1)), lista[Len(lista)])

\* list.remove: the first occurrence goes
RECURSIVE Remover(_, _)
Remover(lista, id) ==
    IF lista = <<>> THEN <<>>
    ELSE IF Head(lista) = id THEN Tail(lista)
    ELSE <<Head(lista)>> \o Remover(Tail(lista), id)

Contem(lista, id) == \E i \in 1..Len(lista) : lista[i] = id

\* what every step of the queue leaves alone
ForaDaFila == <<varsRegistro, varsMonitor, varsAgendador, max_concurrent>>

Thread(id, pc) == SetToBag({<<id, pc>>})

\* _iniciar_processamento: counter and active dict under the lock, then the
\* status, the start time and the worker thread
_iniciar_processamento(id) ==
    /\ processadores_ativos' = processadores_ativos + 1
    /\ requisicoes_ativas' = requisicoes_ativas \cup {id}
    /\ requisicoes' = [requisicoes EXCEPT ![id].status = "processando",
                                          ![id].timestamp_inicio = relogio]
    /\ threads_requisicao' = threads_requisicao (+) Thread(id, "processando")

\* a limit that is never reached
NoLimiteNunca == FALSE

\* the test both start paths make before starting a request
NoLimite == processadores_ativos >= max_concurrent

\* _processar_fila_aguardando up to the start of its for loop
ProcessarFilaAguardandoInicio ==
    /\ pc_dispatcher = "topo"
    /\ IF fila_aguardando_recurso = <<>>
       THEN /\ pc_dispatcher' = "limite"
            /\ UNCHANGED <<fila_aguardando_recurso, iterador, processadas>>
       ELSE /\ fila_aguardando_recurso' = SortReverso(fila_aguardando_recurso)
            /\ iterador' = 1
            /\ processadas' = <<>>
            /\ pc_dispatcher' = "iterar"
    /\ UNCHANGED <<ForaDaFila, requisicoes, fila_pendentes, requisicoes_ativas,
                   processadores_ativos, estatisticas, historico_metricas,
                   threads_requisicao, cancelando, retorno_cancelar, relogio>>

\* one turn of the for loop over the list as it is now
ProcessarFilaAguardandoIterar ==
    /\ pc_dispatcher = "iterar"
    /\ IF iterador > Len(fila_aguardando_recurso)
          \/ NoLimite
       THEN /\ pc_dispatcher' = "remover"
            /\ UNCHANGED <<requisicoes, requisicoes_ativas, processadores_ativos,
                           threads_requisicao, iterador, processadas>>
       ELSE LET id == fila_aguardando_recurso[iterador] IN
            /\ iterador' = iterador + 1
            /\ pc_dispatcher' = "iterar"
            /\ IF _verificar_recursos_disponiveis(id)
               THEN /\ _iniciar_processamento(id)
                    /\ processadas' = Append(processadas, id)
               ELSE UNCHANGED <<requisicoes, requisicoes_ativas, processadores_ativos,
                                threads_requisicao, processadas>>
    /\ UNCHANGED <<ForaDaFila, fila_pendentes, fila_aguardando_recurso, estatisticas,
                   historico_metricas, cancelando, retorno_cancelar, relogio>>

\* the removals after the loop: list.remove raises ValueError on a request
\* that is no longer in the list, and the rest stays
RECURSIVE RemoverProcessadas(_, _)
RemoverProcessadas(lista, procs) ==
    IF procs = <<>> THEN [lista |-> lista, erro |-> FALSE]
    ELSE IF ~Contem(lista, Head(procs)) THEN [lista |-> lista, erro |-> TRUE]
    ELSE RemoverProcessadas(Remover(lista, Head(procs)), Tail(procs))

ProcessarFilaAguardandoRemover ==
    /\ pc_dispatcher = "remover"
    /\ LET r == RemoverProcessadas(fila_aguardando_recurso, processadas) IN
       /\ fila_aguardando_recurso' = r.lista
       /\ pc_dispatcher' = IF r.erro THEN "topo" ELSE "limite"
    /\ iterador' = 0
    /\ processadas' = <<>>
    /\ UNCHANGED <<ForaDaFila, requisicoes, fila_pendentes, requisicoes_ativas,
                   processadores_ativos, estatisticas, historico_metricas,
                   threads_requisicao, cancelando, retorno_cancelar, relogio>>

\* PriorityQueue.get: a request no other queued request is __lt__ than
PrimeiraPendente(id) ==
    /\ id \in fila_pendentes
    /\ \A o \in fila_pendentes : ~RequisicaoLt(requisicoes[o], requisicoes[id])

\* _loop_dispatcher after the waiting pass: the limit, the get and the dispatch
LoopDispatcherDespachar ==
    /\ pc_dispatcher = "limite"
    /\ pc_dispatcher' = "topo"
    /\ IF NoLimite \/ fila_pendentes = {}
       THEN UNCHANGED <<requisicoes, fila_pendentes, fila_aguardando_recurso,
                        requisicoes_ativas, processadores_ativos, threads_requisicao>>
       ELSE \E id \in fila_pendentes :
            /\ PrimeiraPendente(id)
            /\ fila_pendentes' = fila_pendentes \ {id}
            /\ IF _verificar_recursos_disponiveis(id)
               THEN /\ _iniciar_processamento(id)
                    /\ UNCHANGED fila_aguardando_recurso
               ELSE /\ requisicoes' = [requisicoes EXCEPT
                                          ![id].status = "aguardando_recurso"]
                    /\ fila_aguardando_recurso' = Append(fila_aguardando_recurso, id)
                    /\ UNCHANGED <<requisicoes_ativas, processadores_ativos,
                                   threads_requisicao>>
    /\ UNCHANGED <<ForaDaFila, estatisticas, historico_metricas, iterador, processadas,
                   cancelando, retorno_cancelar, relogio>>

\* _processar_requisicao: the simulated pipeline returns
ProcessarRequisicaoConcluir(id) ==
    /\ BagIn(<<id, "processando">>, threads_requisicao)
    /\ requisicoes' = [requisicoes EXCEPT ![id].status = "concluida",
                                          ![id].timestamp_conclusao = relogio]
    /\ estatisticas' = [estatisticas EXCEPT
                           !.total_processadas = estatisticas.total_processadas + 1]
    /\ threads_requisicao' =
          (threads_requisicao (-) Thread(id, "processando")) (+) Thread(id, "finalizando")
    /\ UNCHANGED <<ForaDaFila, fila_pendentes, fila_aguardando_recurso, requisicoes_ativas,
                   processadores_ativos, historico_metricas, pc_dispatcher, iterador,
                   processadas, cancelando, retorno_cancelar, relogio>>

\* _processar_requisicao: the body raises
ProcessarRequisicaoErro(id) ==
    /\ BagIn(<<id, "processando">>, threads_requisicao)
    /\ requisicoes' = [requisicoes EXCEPT ![id].status = "erro",
                                          ![id].erro = "falha no processamento",
                                          ![id].timestamp_conclusao = relogio]
    /\ estatisticas' = [estatisticas EXCEPT
                           !.total_com_erro = estatisticas.total_com_erro + 1]
    /\ threads_requisicao' =
          (threads_requisicao (-) Thread(id, "processando")) (+) Thread(id, "finalizando")
    /\ UNCHANGED <<ForaDaFila, fila_pendentes, fila_aguardando_recurso, requisicoes_ativas,
                   processadores_ativos, historico_metricas, pc_dispatcher, iterador,
                   processadas, cancelando, retorno_cancelar, relogio>>

\* a worker that ends without giving its slot back
ProcessarRequisicaoSemFinally(id) ==
    /\ BagIn(<<id, "finalizando">>, threads_requisicao)
    /\ threads_requisicao' = threads_requisicao (-) Thread(id, "finalizando")
    /\ UNCHANGED <<ForaDaFila, requisicoes, fila_pendentes, fila_aguardando_recurso,
                   requisicoes_ativas, processadores_ativos, estatisticas,
                   historico_metricas, pc_dispatcher, iterador, processadas, cancelando,
                   retorno_cancelar, relogio>>

\* _processar_requisicao: the finally block
ProcessarRequisicaoFinally(id) ==
    /\ BagIn(<<id, "finalizando">>, threads_requisicao)
    /\ processadores_ativos' = processadores_ativos - 1
    /\ requisicoes_ativas' = requisicoes_ativas \ {id}
    /\ threads_requisicao' = threads_requisicao (-) Thread(id, "finalizando")
    /\ UNCHANGED <<ForaDaFila, requisicoes, fila_pendentes, fila_aguardando_recurso,
                   estatisticas, historico_metricas, pc_dispatcher, iterador,
                   processadas, cancelando, retorno_cancelar, relogio>>

\* a test that also accepts a request being processed
CancelavelProcessando(status) ==
    status \in {"pendente", "aguardando_recurso", "processando"}

\* the statuses cancelar_requisicao accepts
Cancelavel(status) == status \in {"pendente", "aguardando_recurso"}

\* cancelar_requisicao up to its test of the status; it takes no lock, so the
\* other threads run between the test and the writes.  Callers cancel one
\* request from one thread at a time.
CancelarRequisicaoVerificar(id) ==
    /\ id \notin cancelando
    /\ IF id \in DOMAIN requisicoes /\ Cancelavel(requisicoes[id].status)
       THEN /\ cancelando' = cancelando \cup {id}
            /\ UNCHANGED retorno_cancelar
       ELSE /\ retorno_cancelar' = [id |-> id, valor |-> FALSE]
            /\ UNCHANGED cancelando
    /\ UNCHANGED <<ForaDaFila, requisicoes, fila_pendentes, fila_aguardando_recurso,
                   requisicoes_ativas, processadores_ativos, estatisticas,
                   historico_metricas, threads_requisicao, pc_dispatcher, iterador,
                   processadas, relogio>>

\* cancelar_requisicao after the test: the writes and the removal from the list
CancelarRequisicaoEscrever(id) ==
    /\ id \in cancelando
    /\ cancelando' = cancelando \ {id}
    /\ requisicoes' = [requisicoes EXCEPT ![id].status = "cancelada",
                                          ![id].timestamp_conclusao = relogio]
    /\ estatisticas' = [estatisticas EXCEPT
                           !.total_canceladas = estatisticas.total_canceladas + 1]
    /\ fila_aguardando_recurso' = Remover(fila_aguardando_recurso, id)
    /\ retorno_cancelar' = [id |-> id, valor |-> TRUE]
    /\ UNCHANGED <<ForaDaFila, fila_pendentes, requisicoes_ativas, processadores_ativos,
                   historico_metricas, threads_requisicao, pc_dispatcher, iterador,
                   processadas, relogio>>

\* _verificar_timeouts: the active requests older than their timeout
Expiradas(agora) ==
    {id \in requisicoes_ativas :
        agora - requisicoes[id].timestamp_criacao > requisicoes[id].timeout}

\* _otimizar_filas: the parked requests it raises to ALTA
Envelhecidas(agora) ==
    {id \in DOMAIN requisicoes :
        /\ Contem(fila_aguardando_recurso, id)
        /\ agora - requisicoes[id].timestamp_criacao > espera_maxima
        /\ requisicoes[id].prioridade < ALTA}

\* one iteration of _loop_monitor: _verificar_timeouts, _coletar_metricas,
\* which slices the deque once it holds two entries and so raises TypeError,
\* and _otimizar_filas when nothing was raised
LoopMonitorFila(agora) ==
    /\ historico_metricas < MaxVarreduras
    /\ historico_metricas' = historico_metricas + 1
    /\ relogio' = agora
    /\ LET expiradas == Expiradas(agora)
           envelhecidas == IF historico_metricas + 1 > 1 THEN {} ELSE Envelhecidas(agora)
       IN /\ requisicoes' =
                [id \in DOMAIN requisicoes |->
                    IF id \in expiradas
                    THEN [requisicoes[id] EXCEPT !.status = "timeout",
                                                 !.timestamp_conclusao = agora]
                    ELSE IF id \in envelhecidas
                    THEN [requisicoes[id] EXCEPT !.prioridade = ALTA]
                    ELSE requisicoes[id]]
          /\ estatisticas' = [estatisticas EXCEPT
                !.total_timeout = estatisticas.total_timeout + Cardinality(expiradas)]
    /\ UNCHANGED <<ForaDaFila, fila_pendentes, fila_aguardando_recurso, requisicoes_ativas,
                   processadores_ativos, threads_requisicao, pc_dispatcher, iterador,
                   processadas, cancelando, retorno_cancelar>>

\* an iteration of _loop_monitor after the last one the model counts: the
\* deque holds more than one entry, so _verificar_timeouts runs and
\* _coletar_metricas raises before _otimizar_filas
LoopMonitorFilaCheio(agora) ==
    /\ historico_metricas = MaxVarreduras
    /\ relogio' = agora
    /\ LET expiradas == Expiradas(agora)
       IN /\ requisicoes' =
                [id \in DOMAIN requisicoes |->
                    IF id \in expiradas
                    THEN [requisicoes[id] EXCEPT !.status = "timeout",
                                                 !.timestamp_conclusao = agora]
                    ELSE requisicoes[id]]
          /\ estatisticas' = [estatisticas EXCEPT
                !.total_timeout = estatisticas.total_timeout + Cardinality(expiradas)]
    /\ UNCHANGED <<ForaDaFila, fila_pendentes, fila_aguardando_recurso, requisicoes_ativas,
                   processadores_ativos, historico_metricas, threads_requisicao,
                   pc_dispatcher, iterador, processadas, cancelando, retorno_cancelar>>

(***************************************************************************)
(* The scheduler with its catalog and monitor                              *)
(***************************************************************************)
\* the state after the four objects are built, the queue as
\* GerenciadorFilas(max_concurrent=limite, monitor_gpu=monitor)
InitComLimite(limite) ==
    /\ modelos = CatalogoInicial
    /\ status_modelos = [n \in DOMAIN CatalogoInicial |->
                            StatusDetalhado("descarregado", 1, NoGpu, 0, "None")]
    /\ gpu_alocacoes = <<>>
    /\ callbacks_status = 0
    /\ notificados = <<>>
    /\ excecao_registro = "None"
    /\ status_atual = <<>>
    /\ monitor_executando = FALSE
    /\ thread_monitor = 0
    /\ loops_vivos = {}
    /\ erro_monitor = "None"
    /\ chamada_monitor = "None"
    /\ lock_monitor = 0
    /\ callbacks_alerta = 0
    /\ backend_residente = [n \in DOMAIN CatalogoInicial |-> NoGpu]
    /\ registro_expoe_StatusModelo \in BOOLEAN
    /\ lock_agendador = "None"
    /\ pc_scheduler = "topo"
    /\ fila_operacoes = {}
    /\ operacoes_executando = <<>>
    /\ operacoes_concluidas = {}
    /\ threads_operacao = <<>>
    /\ descartadas = {}
    /\ callbacks_chamados = EmptyBag
    /\ proximo_uid = 1
    /\ requisicoes = <<>>
    /\ fila_pendentes = {}
    /\ fila_aguardando_recurso = <<>>
    /\ requisicoes_ativas = {}
    /\ processadores_ativos = 0
    /\ max_concurrent = limite
    /\ estatisticas = [total_processadas |-> 0, total_com_erro |-> 0,
                       total_timeout |-> 0, total_canceladas |-> 0]
    /\ historico_metricas = 0
    /\ threads_requisicao = EmptyBag
    /\ pc_dispatcher = "topo"
    /\ iterador = 0
    /\ processadas = <<>>
    /\ cancelando = {}
    /\ retorno_cancelar = [id |-> 0, valor |-> FALSE]
    /\ relogio = 1

\* the queue is built with the smallest limit, which the second request
\* already meets
Init == InitComLimite(1)

\* the catalog is a registro that exposes StatusModelo
InitRegistro == Init /\ registro_expoe_StatusModelo = TRUE

\* the steps of the scheduler's own threads
PassoAgendador ==
    \/ LoopSchedulerDescartar
    \/ LoopSchedulerExecutar
    \/ \E uid \in DOMAIN threads_operacao : CarregarModeloInicio(uid)
    \/ \E uid \in DOMAIN threads_operacao : CarregarModeloSucesso(uid)
    \/ \E uid \in DOMAIN threads_operacao : CarregarModeloFalha(uid)
    \/ \E uid \in DOMAIN threads_operacao : DescarregarModeloInicio(uid)
    \/ \E uid \in DOMAIN threads_operacao : DescarregarModeloSucesso(uid)
    \/ \E uid \in DOMAIN threads_operacao : DescarregarModeloFalha(uid)

\* callers that load and unload the models of the catalog at one priority,
\* leaving the device to the scheduler; a load may come an instant after the
\* call before it, an unload comes in the same instant
NextAgendador ==
    \/ \E n \in DOMAIN CatalogoInicial, agora \in Agora :
          solicitar_modelo(n, NORMAL, NoGpu, TRUE, agora)
    \/ \E n \in DOMAIN CatalogoInicial : descarregar_modelo(n, NORMAL, TRUE, relogio)
    \/ AtualizarStatusGPU
    \/ PassoAgendador

SpecAgendador == Init /\ [][NextAgendador]_vars

\* the same callers and threads, with the two sleeps of _loop_scheduler
NextLock ==
    \/ NextAgendador
    \/ LoopSchedulerDormirNoLimite
    \/ LoopSchedulerDormirFilaVazia
    \/ LoopSchedulerAcordar

SpecLock == Init /\ [][NextLock]_vars

\* C32: while _loop_scheduler sleeps nobody holds the lock of the scheduler,
\* so that the callers of solicitar_modelo and descarregar_modelo and the
\* threads of the operations can take it
C32_DormeSemLock ==
    pc_scheduler \in {"sleep_limite", "sleep_fila_vazia"} => lock_agendador = "None"

\* callers that ask for one model in every kind of operation: loads at two
\* priorities, unloads at one, preloads at the lowest
ModeloOrdem == "phi3-vision-classificador"

\* a name no descriptor was registered under
ModeloDesconhecido == "modelo-desconhecido"

\* the probabilities the callers of preload_preditivo pass, in tenths: below
\* the threshold, the threshold itself, above it
Probabilidades == {5, fator_preloading, 9}

NextOrdem ==
    \/ \E p \in {NORMAL, CRITICA}, agora \in Agora :
          solicitar_modelo(ModeloOrdem, p, NoGpu, TRUE, agora)
    \/ \E agora \in Agora : descarregar_modelo(ModeloOrdem, NORMAL, TRUE, agora)
    \/ \E prob \in Probabilidades : preload_preditivo(ModeloOrdem, prob, relogio)
    \/ AtualizarStatusGPU
    \/ PassoAgendador

SpecOrdem == Init /\ [][NextOrdem]_vars

\* callers that also name a model the catalog does not know, and always pass
\* a callback
NextDesconhecido ==
    \/ \E n \in {ModeloOrdem, ModeloDesconhecido} :
          solicitar_modelo(n, NORMAL, NoGpu, TRUE, relogio)
    \/ \E n \in {ModeloOrdem, ModeloDesconhecido} :
          descarregar_modelo(n, NORMAL, TRUE, relogio)
    \/ AtualizarStatusGPU
    \/ PassoAgendador

SpecDesconhecido == Init /\ [][NextDesconhecido]_vars

\* C18: an operation that names a model the catalog does not know does not
\* vanish: once the scheduler has dropped it, its callback has been called
\* with a failure
C18_DesconhecidoReportado ==
    \A d \in descartadas :
       d.nome_modelo \notin DOMAIN modelos =>
          \E c \in BagToSet(callbacks_chamados) : c.uid = d.uid /\ ~c.sucesso

(***************************************************************************)
(* The scheduler with its monitor loop: unloading by inactivity            *)
(***************************************************************************)
\* the loaded models whose last use is older than the threshold at the instant agora
CarregadoInativo(nome, agora) ==
    /\ status_modelos[nome].status = "carregado"
    /\ agora - modelos[nome].ultima_utilizacao > tempo_inatividade_descarregar

\* the time.sleep(30.0) of _loop_monitor, as many times as it takes a loaded
\* model to pass the threshold
PassaTempo ==
    /\ \E n \in obter_modelos_carregados : ~CarregadoInativo(n, relogio)
    /\ relogio' = relogio + tempo_inatividade_descarregar + 1
    /\ UNCHANGED <<varsRegistro, varsMonitor, varsAgendador, varsFila>>

\* the steps of the thread of the operation uid when the backend does not fail
PassoOperacao(uid) ==
    \/ CarregarModeloInicio(uid)
    \/ CarregarModeloSucesso(uid)
    \/ DescarregarModeloInicio(uid)
    \/ DescarregarModeloSucesso(uid)

\* the scheduler's loop
LoopScheduler == LoopSchedulerDescartar \/ LoopSchedulerExecutar

\* callers that load one model and leave the unloading to the monitor loop,
\* which is left room for one more operation
NextInatividade ==
    \/ /\ proximo_uid < MaxOperacoes
       /\ \E agora \in Agora : solicitar_modelo(ModeloOrdem, NORMAL, NoGpu, TRUE, agora)
    \/ PassaTempo
    \/ LoopMonitorAgendador(relogio)
    \/ AtualizarStatusGPU
    \/ LoopSchedulerDescartar
    \/ LoopSchedulerExecutar
    \/ \E uid \in DOMAIN threads_operacao : CarregarModeloInicio(uid)
    \/ \E uid \in DOMAIN threads_operacao : CarregarModeloSucesso(uid)
    \/ \E uid \in DOMAIN threads_operacao : DescarregarModeloInicio(uid)
    \/ \E uid \in DOMAIN threads_operacao : DescarregarModeloSucesso(uid)

\* the three kinds of thread of the scheduler keep running: its loop, its
\* monitor loop and the thread of each executed operation
SpecInatividade ==
    /\ InitRegistro
    /\ [][NextInatividade]_vars
    /\ WF_vars(LoopScheduler)
    /\ WF_vars(LoopMonitorAgendador(relogio))
    /\ \A uid \in 1..(MaxOperacoes + 1) : WF_vars(PassoOperacao(uid))

ModelosAdicionais ==
    [n \in {"phi3-vision-legendas", "phi3-vision-ocr"} |->
        IF n = "phi3-vision-legendas"
        THEN [memoria_necessaria_mb |-> 4096, prioridade |-> 7, ultima_utilizacao |-> 0,
              total_utilizacoes |-> 0]
        ELSE [memoria_necessaria_mb |-> 4096, prioridade |-> 6, ultima_utilizacao |-> 0,
              total_utilizacoes |-> 0]]

\* a caller of registrar_modelo with a new descriptor
RegistrarAdicional(nome) ==
    /\ nome \notin DOMAIN modelos
    /\ registrar_modelo(nome, ModelosAdicionais[nome])
    /\ UNCHANGED <<varsMonitor, varsAgendador, varsFila, relogio>>

\* a model loader that loads an unloaded model on the device it chose: the
\* backend holds the model, then atualizar_status and registrar_utilizacao
CarregadorCarrega(nome, gpu_id, agora) ==
    /\ nome \in DOMAIN modelos
    /\ status_modelos[nome].status = "descarregado"
    /\ backend_residente' = (nome :> gpu_id) @@ backend_residente
    /\ atualizar_status(nome, "carregado", gpu_id, modelos[nome].memoria_necessaria_mb,
                        "None", agora)
    /\ modelos' = [modelos EXCEPT ![nome].ultima_utilizacao = agora,
                                  ![nome].total_utilizacoes = @ + 1]
    /\ relogio' = agora
    /\ UNCHANGED <<status_atual, varsThreadMonitor, varsAgendador, varsFila>>

\* memory other processes hold on the devices
OutrosProcessos == {[g \in GPUs |-> IF g = 0 THEN 4096 ELSE 0],
                    [g \in GPUs |-> IF g = 0 THEN 0 ELSE 4096]}

\* _atualizar_status when other processes use the devices too: memoryUsed is
\* what the device reports, never more than its total
AtualizarStatusGPUComOutros(outros) ==
    /\ status_atual' = [g \in GPUs |->
            LET usada == IF MemoriaUsadaReal(g) + outros[g] > MemoriaTotal[g]
                         THEN MemoriaTotal[g]
                         ELSE MemoriaUsadaReal(g) + outros[g]
            IN [memoria_total_mb |-> MemoriaTotal[g],
                memoria_usada_mb |-> usada,
                memoria_livre_mb |-> MemoriaTotal[g] - usada]]
    /\ status_atual' # status_atual
    /\ UNCHANGED <<varsRegistro, backend_residente, varsThreadMonitor, varsAgendador,
                   varsFila, relogio>>

\* loaders fill the devices with the models of the catalog and of the
\* deployment, time passes, and the monitor loop runs
NextMemoria ==
    \/ \E nome \in DOMAIN ModelosAdicionais : RegistrarAdicional(nome)
    \/ \E nome \in DOMAIN ModelosAdicionais \cup {ModeloOrdem}, gpu_id \in GPUs,
          agora \in Agora : CarregadorCarrega(nome, gpu_id, agora)
    \/ AtualizarStatusGPU
    \/ \E outros \in OutrosProcessos : AtualizarStatusGPUComOutros(outros)
    \/ PassaTempo
    \/ LoopMonitorAgendador(relogio)

SpecMemoria == InitRegistro /\ [][NextMemoria]_vars

\* the unloadings at priority NORMAL a step enqueues: those of _otimizar_memoria
PedidosDeMemoria ==
    {op \in fila_operacoes' \ fila_operacoes :
        op.tipo = "descarregar" /\ op.prioridade = NORMAL}

\* C13: no unloading asked for under memory pressure names a model whose
\* priority is 8 or more
C13_PoupaPrioritarios ==
    [][\A op \in PedidosDeMemoria : modelos[op.nome_modelo].prioridade < 8]_vars

\* C13 happens: under memory pressure the unloading of a model was asked for
\* while a loaded model of priority 8 or more, last used before it, was spared
C13_Testemunha ==
    \E op \in fila_operacoes : \E n \in obter_modelos_carregados :
       /\ op.tipo = "descarregar" /\ op.prioridade = NORMAL
       /\ modelos[n].prioridade >= 8
       /\ modelos[n].ultima_utilizacao < modelos[op.nome_modelo].ultima_utilizacao
       /\ ~\E outra \in fila_operacoes :
             outra.nome_modelo = n /\ outra.prioridade = NORMAL

\* the loaded models of priority below 8, oldest last use first
Elegiveis ==
    Ordenados({n \in obter_modelos_carregados : modelos[n].prioridade < 8})

\* the memory of the first k of them
RECURSIVE MemoriaDosPrimeiros(_)
MemoriaDosPrimeiros(k) ==
    IF k = 0 THEN 0
    ELSE modelos[Elegiveis[k]].memoria_necessaria_mb + MemoriaDosPrimeiros(k - 1)

\* would the usage be below 70% with the first k of them unloaded
AbaixoDaMarcaSem(k) ==
    (memoria_usada_sistema - MemoriaDosPrimeiros(k)) * 100 < 70 * memoria_total_sistema

\* C14: with more than 85% of the memory of the devices in use, the monitor
\* loop asks, oldest last use first, for the unloading of loaded models of
\* priority below 8, and of no more of them than it takes to bring the usage
\* below 70%
C14_ParaNaMarcaBaixa ==
    [][(PedidosDeMemoria # {}) =>
          \E k \in 1..Len(Elegiveis) :
             /\ PercentualAcima(85)
             /\ {op.nome_modelo : op \in PedidosDeMemoria} = {Elegiveis[i] : i \in 1..k}
             /\ \A a, b \in PedidosDeMemoria :
                   TuplaLt(a.nome_modelo, b.nome_modelo) => a.uid < b.uid
             /\ \A j \in 1..(k - 1) : ~AbaixoDaMarcaSem(j)]_vars

(***************************************************************************)
(* The monitor loop and the models in frequent use                         *)
(***************************************************************************)
\* a loader or the scheduler records a use of a model in the catalog
RegistroUsa(nome, agora) ==
    /\ modelos[nome].total_utilizacoes < MaxUsos
    /\ modelos' = [modelos EXCEPT ![nome].ultima_utilizacao = agora,
                                  ![nome].total_utilizacoes = @ + 1]
    /\ relogio' = agora
    /\ UNCHANGED <<status_modelos, gpu_alocacoes, callbacks_status, notificados,
                   excecao_registro, varsMonitor, varsAgendador, varsFila>>

\* the intervalo of _loop_monitor, thirty seconds, in milliseconds
intervalo_monitor == 30 * 1000

\* the iterations of the monitor loop that are followed
UltimaVarredura == 2 * intervalo_monitor

\* the models of the catalog are used, all within a few minutes, while the
\* monitor loop of the scheduler iterates
NextPreditivo ==
    \/ \E nome \in DOMAIN CatalogoInicial, agora \in Agora : RegistroUsa(nome, agora)
    \/ AtualizarStatusGPU
    \/ /\ relogio + intervalo_monitor <= UltimaVarredura + MaxUsos
       /\ LoopMonitorPreditivo(relogio + intervalo_monitor)

SpecPreditivo == InitRegistro /\ [][NextPreditivo]_vars

\* C30: an iteration of the monitor loop enqueues a preload, at the lowest
\* priority, for every unloaded model with two or more uses recorded in the
\* last hour for which min(uses / 10, 0.9) is above fator_preloading
C30_PreloadDosMaisUsados ==
    [][\A n \in DOMAIN CatalogoInicial :
          (/\ LoopMonitorPreditivo(relogio + intervalo_monitor)
           /\ relogio' < 3600 * 1000
           /\ modelos[n].total_utilizacoes >= 2
           /\ ProbabilidadeDeUso(modelos[n].total_utilizacoes) > fator_preloading
           /\ status_modelos[n].status = "descarregado") =>
             \E op \in fila_operacoes' \ fila_operacoes :
                /\ op.tipo = "preload"
                /\ op.nome_modelo = n
                /\ op.prioridade = BAIXA]_vars

(***************************************************************************)
(* The device monitor and its thread                                       *)
(***************************************************************************)
\* the devices alone, and the devices with another process on one of them
Leituras == {[g \in GPUs |-> 0]} \cup OutrosProcessos

\* callers start and stop the monitor while a loader puts a model on a
\* device; GPUtil can be read or raises
NextMonitor ==
    \/ \E leitura_ok \in BOOLEAN : iniciar_monitoramento(leitura_ok)
    \/ \E terminou \in BOOLEAN : parar_monitoramento(terminou)
    \/ \E id \in loops_vivos, outros \in Leituras : LoopMonitoramentoLer(id, outros)
    \/ \E id \in loops_vivos : LoopMonitoramentoFalha(id)
    \/ \E id \in loops_vivos : LoopMonitoramentoSair(id)
    \/ \E gpu_id \in GPUs : CarregadorCarrega(ModeloOrdem, gpu_id, relogio)

SpecMonitor == InitRegistro /\ [][NextMonitor]_vars

\* the polling loops that run: the threads alive while the Event is set
LoopsRodando == IF monitor_executando THEN loops_vivos ELSE {}

\* C26: an iteration of the polling loop in which the devices cannot be read
\* leaves the snapshot of every device as it was, and the thread alive with
\* its Event set; a call of iniciar_monitoramento in which they cannot be
\* read returns leaving the snapshot as it was
C26_FalhaMantemSnapshot ==
    [][/\ \A id \in loops_vivos :
             LoopMonitoramentoFalha(id) =>
                /\ status_atual' = status_atual
                /\ loops_vivos' = loops_vivos
                /\ monitor_executando' = monitor_executando
                /\ erro_monitor' = ErroAoObterGPUs
       /\ iniciar_monitoramento(FALSE) => status_atual' = status_atual]_vars

\* C26 happens: the last reading failed, the snapshot still shows the memory
\* in use read before, and the loop is running
C26_Testemunha ==
    /\ erro_monitor = ErroAoObterGPUs
    /\ LoopsRodando # {}
    /\ \E g \in DOMAIN status_atual : status_atual[g].memoria_usada_mb > 0

\* C27: never more than one polling loop is alive; iniciar_monitoramento on
\* a monitor whose loop runs and parar_monitoramento on a monitor without a
\* live thread change nothing; and after parar_monitoramento followed by an
\* iniciar_monitoramento that can read the devices exactly one polling loop
\* runs
C27_InicioParadaIdempotentes ==
    [][/\ Cardinality(loops_vivos') <= 1
       /\ \A leitura_ok \in BOOLEAN :
             (iniciar_monitoramento(leitura_ok) /\ LoopsRodando # {}) =>
                UNCHANGED <<monitor_executando, thread_monitor, loops_vivos, status_atual>>
       /\ \A terminou \in BOOLEAN :
             (parar_monitoramento(terminou) /\ loops_vivos = {} /\ ~monitor_executando) =>
                UNCHANGED <<monitor_executando, thread_monitor, loops_vivos, status_atual>>
       /\ (iniciar_monitoramento(TRUE) /\ chamada_monitor = "parar_monitoramento") =>
                (monitor_executando' /\ Cardinality(loops_vivos') = 1)]_vars

\* the monitor with a subscriber of its alerts
NextAlerta ==
    \/ NextMonitor
    \/ adicionar_callback_alerta

SpecAlerta == InitRegistro /\ [][NextAlerta]_vars

\* C39: no polling thread waits, inside the evaluation of the thresholds,
\* for the lock of the monitor that it holds itself
C39_LoopSemDeadlock == \A id \in loops_vivos : lock_monitor # id

(***************************************************************************)
(* The choice of the device for a load                                     *)
(***************************************************************************)
\* callers that load the models of the catalog with and without a preferred
\* device, while other processes come and go on the devices
NextEscolha ==
    \/ \E n \in DOMAIN CatalogoInicial, gpu_preferida \in GPUs \cup {NoGpu} :
          solicitar_modelo(n, NORMAL, gpu_preferida, FALSE, relogio)
    \/ AtualizarStatusGPU
    \/ \E outros \in OutrosProcessos : AtualizarStatusGPUComOutros(outros)
    \/ LoopSchedulerDescartar
    \/ LoopSchedulerExecutar
    \/ \E uid \in DOMAIN threads_operacao : CarregarModeloInicio(uid)
    \/ \E uid \in DOMAIN threads_operacao : CarregarModeloSucesso(uid)
    \/ \E uid \in DOMAIN threads_operacao : CarregarModeloFalha(uid)

SpecEscolha == InitRegistro /\ [][NextEscolha]_vars

\* the amounts of memory asked of the monitor: what the loads of the catalog
\* need with the margin, and amounts around the sizes of the devices
MemoriasPedidas ==
    {CatalogoInicial[n].memoria_necessaria_mb + margem_seguranca_memoria :
        n \in DOMAIN CatalogoInicial} \cup {0, 4096, 4608, 8192, 8193}

\* a device id GPUtil never reported: the one after the last
GpuDesconhecida == Cardinality(GPUs)

\* the devices of the last snapshot with this much memory free
Cabem(memoria_mb) ==
    {g \in DOMAIN status_atual : status_atual[g].memoria_livre_mb >= memoria_mb}

\* C25: obter_gpu_com_memoria_suficiente returns a device of the last
\* snapshot with at least the memory asked for free, the first such device in
\* the order of the snapshot, and None exactly when there is none;
\* memoria_suficiente_para_modelo is false for a device the snapshot does not
\* hold
C25_PrimeiraQueCabe ==
    \A m \in MemoriasPedidas :
       LET r == obter_gpu_com_memoria_suficiente(m) IN
       /\ (r = NoGpu) <=> (Cabem(m) = {})
       /\ r # NoGpu => (r \in Cabem(m) /\ \A g \in Cabem(m) : r <= g)
       /\ ~memoria_suficiente_para_modelo(GpuDesconhecida, m)
       /\ \A g \in GPUs \ DOMAIN status_atual : ~memoria_suficiente_para_modelo(g, m)

\* C25 happens: a load was placed on the first device while the second one
\* had room for it too and less memory free, and for some amount no device
\* has room
C25_Testemunha ==
    /\ \E uid \in DOMAIN threads_operacao :
          LET m == modelos[threads_operacao[uid].op.nome_modelo].memoria_necessaria_mb
                   + margem_seguranca_memoria
          IN /\ threads_operacao[uid].pc = "backend"
             /\ threads_operacao[uid].op.gpu_preferida = NoGpu
             /\ threads_operacao[uid].gpu_id = 0
             /\ Cabem(m) = {0, 1}
             /\ status_atual[1].memoria_livre_mb < status_atual[0].memoria_livre_mb
    /\ \E m \in MemoriasPedidas : obter_gpu_com_memoria_suficiente(m) = NoGpu

\* the device the spec of the load names: the preferred one when it has
\* room, otherwise the first one with room, otherwise none
DispositivoEsperado(op) ==
    LET m == modelos[op.nome_modelo].memoria_necessaria_mb + margem_seguranca_memoria IN
    IF op.gpu_preferida # NoGpu /\ op.gpu_preferida \in Cabem(m)
    THEN op.gpu_preferida
    ELSE IF Cabem(m) = {} THEN NoGpu
    ELSE CHOOSE g \in Cabem(m) : \A h \in Cabem(m) : g <= h

RegistroAtualizarStatus(nome, novo_status, gpu_id, memoria_alocada_mb, erro_detalhes) ==
    /\ atualizar_status(nome, novo_status, gpu_id, memoria_alocada_mb, erro_detalhes,
                        relogio)
    /\ UNCHANGED <<modelos, varsMonitor, varsAgendador, varsFila, relogio>>

\* a caller of registrar_modelo
RegistroRegistrarModelo(nome) ==
    /\ registrar_modelo(nome, CatalogoInicial[nome])
    /\ UNCHANGED <<varsMonitor, varsAgendador, varsFila, relogio>>

\* a subscriber is added
RegistroAdicionarCallback ==
    /\ adicionar_callback_status
    /\ UNCHANGED <<varsMonitor, varsAgendador, varsFila, relogio>>

\* callers pass the allocated memory with carregado and the detail of the
\* error with the states of error, as the scheduler and the loaders do
NextRegistro ==
    \/ \E nome \in DOMAIN CatalogoInicial, novo_status \in StatusModelo,
          gpu_id \in GPUs \cup {NoGpu} :
             RegistroAtualizarStatus(
                nome, novo_status, gpu_id,
                IF novo_status = "carregado"
                THEN CatalogoInicial[nome].memoria_necessaria_mb ELSE 0,
                IF novo_status \in {"erro", "erro_memoria", "erro_arquivo"}
                THEN "falha" ELSE "None")
    \/ \E novo_status \in StatusModelo, gpu_id \in GPUs \cup {NoGpu} :
          RegistroAtualizarStatus(ModeloDesconhecido, novo_status, gpu_id, 0, "None")
    \/ \E nome \in DOMAIN CatalogoInicial : RegistroRegistrarModelo(nome)
    \/ RegistroAdicionarCallback

SpecRegistro == InitRegistro /\ [][NextRegistro]_vars

\* a caller of atualizar_status at the instant agora
RegistroAtualizarStatusEm(nome, novo_status, gpu_id, memoria_alocada_mb, erro_detalhes, agora) ==
    /\ atualizar_status(nome, novo_status, gpu_id, memoria_alocada_mb, erro_detalhes,
                        agora)
    /\ relogio' = agora
    /\ UNCHANGED <<modelos, varsMonitor, varsAgendador, varsFila>>

\* what the callers pass with a status: the device and the memory with
\* carregando and carregado, the detail with the states of error
ArgumentosDoStatus(nome, novo_status) ==
    [gpu_id |-> IF novo_status \in {"carregando", "carregado"} THEN 0 ELSE NoGpu,
     memoria_alocada_mb |-> IF novo_status = "carregado"
                            THEN CatalogoInicial[nome].memoria_necessaria_mb ELSE 0,
     erro_detalhes |-> IF novo_status \in {"erro", "erro_memoria", "erro_arquivo"}
                       THEN "falha" ELSE "None"]

\* callers change the status of the models of the catalog as time goes by,
\* to the status they have as to another one, and subscribe to the changes
NextTransicao ==
    \/ \E nome \in DOMAIN CatalogoInicial, novo_status \in StatusModelo, agora \in Agora :
          /\ agora <= MaxInstantes
          /\ RegistroAtualizarStatusEm(
                nome, novo_status, ArgumentosDoStatus(nome, novo_status).gpu_id,
                ArgumentosDoStatus(nome, novo_status).memoria_alocada_mb,
                ArgumentosDoStatus(nome, novo_status).erro_detalhes, agora)
    \/ RegistroAdicionarCallback

SpecTransicao == InitRegistro /\ [][NextTransicao]_vars

\* C28: a call of atualizar_status with the status the model has is accepted,
\* stamps the record with the instant of the call and calls no subscriber; a
\* call that changes the status calls every subscriber once, with the name,
\* the status before and the new status
C28_NotificaSoMudanca ==
    [][\A nome \in DOMAIN CatalogoInicial, novo_status \in StatusModelo, agora \in Agora :
          RegistroAtualizarStatusEm(
             nome, novo_status, ArgumentosDoStatus(nome, novo_status).gpu_id,
             ArgumentosDoStatus(nome, novo_status).memoria_alocada_mb,
             ArgumentosDoStatus(nome, novo_status).erro_detalhes, agora) =>
                /\ excecao_registro' = "None"
                /\ status_modelos'[nome].status = novo_status
                /\ status_modelos'[nome].timestamp = agora
                /\ IF status_modelos[nome].status = novo_status
                   THEN notificados' = <<>>
                   ELSE /\ Len(notificados') = callbacks_status
                        /\ \A i \in 1..callbacks_status :
                              notificados'[i] =
                                 <<nome, status_modelos[nome].status, novo_status>>]_vars

\* C28 happens: the last call changed the status of a model at a later
\* instant and every subscriber was called with the change, while the other
\* model was stamped again in the status it was built with
C28_Testemunha ==
    /\ callbacks_status = MaxAssinantes
    /\ Len(notificados) = callbacks_status
    /\ \E nome \in DOMAIN CatalogoInicial :
          /\ notificados[1][1] = nome
          /\ notificados[1][2] # notificados[1][3]
          /\ status_modelos[nome].status = notificados[1][3]
          /\ status_modelos[nome].timestamp = relogio
    /\ \E nome \in DOMAIN CatalogoInicial :
          /\ status_modelos[nome].status = "descarregado"
          /\ status_modelos[nome].timestamp > 1
          /\ status_modelos[nome].timestamp < relogio

\* the state machine the models are declared to follow
TransicoesDeclaradas ==
    {<<"descarregado", "carregando">>, <<"carregando", "carregado">>,
     <<"carregado", "descarregando">>, <<"descarregando", "descarregado">>,
     <<"carregando", "erro">>, <<"descarregando", "erro">>,
     <<"erro", "descarregado">>}

\* C3: a call of atualizar_status on a registered model changes its state
\* only along a declared transition (or leaves the state as it was)
C3_SoTransicoesDeclaradas ==
    [][\A nome \in DOMAIN status_modelos :
          \/ status_modelos'[nome].status = status_modelos[nome].status
          \/ <<status_modelos[nome].status, status_modelos'[nome].status>>
                \in TransicoesDeclaradas]_vars

\* C38: gpu_alocacoes holds no model whose status is descarregado, and a
\* loaded model it holds is mapped to the device its status record names
C38_AlocacoesSemDescarregados ==
    \A nome \in DOMAIN gpu_alocacoes :
        /\ nome \in DOMAIN status_modelos
        /\ status_modelos[nome].status # "descarregado"
        /\ (status_modelos[nome].status = "carregado"
            /\ status_modelos[nome].gpu_id # NoGpu) =>
               gpu_alocacoes[nome] = status_modelos[nome].gpu_id

\* C16: registering again a name that is registered leaves the status record
\* of the model (state, device, allocated memory) and its entry in
\* gpu_alocacoes as they were
C16_RegistrarPreservaStatus ==
    [][\A nome \in DOMAIN CatalogoInicial :
          (nome \in DOMAIN modelos /\ RegistroRegistrarModelo(nome)) =>
             /\ status_modelos'[nome] = status_modelos[nome]
             /\ gpu_alocacoes' = gpu_alocacoes]_vars

\* C17: atualizar_status for a name that is not registered raises ValueError
\* to its caller, and changes no status record, no entry of gpu_alocacoes,
\* and calls no subscriber
C17_NaoRegistradoFalha ==
    [][\A novo_status \in StatusModelo, gpu_id \in GPUs \cup {NoGpu} :
          RegistroAtualizarStatus(ModeloDesconhecido, novo_status, gpu_id, 0, "None") =>
             /\ excecao_registro' = "ValueError"
             /\ notificados' = <<>>
             /\ UNCHANGED <<modelos, status_modelos, gpu_alocacoes>>]_vars

\* C17 happens: the last call raised ValueError in a catalog that has a
\* subscriber and a model on a device
C17_Testemunha ==
    /\ excecao_registro = "ValueError"
    /\ callbacks_status > 0
    /\ \E nome \in DOMAIN status_modelos : status_modelos[nome].status = "carregado"
    /\ DOMAIN gpu_alocacoes # {}

(***************************************************************************)
(* Properties of the scheduler                                             *)
(***************************************************************************)
\* the memory the catalog records as loaded on device g
MemoriaCarregada(g) ==
    SomaMemoria({n \in DOMAIN status_modelos :
                    /\ status_modelos[n].status = "carregado"
                    /\ status_modelos[n].gpu_id = g},
                [n \in DOMAIN status_modelos |-> status_modelos[n].memoria_alocada_mb])

\* C1: on every device the memory of the models the catalog records as
\* loaded on it never exceeds the total memory of the device
C1_SemSobrecarga == \A g \in GPUs : MemoriaCarregada(g) <= MemoriaTotal[g]

\* C4: the operation the dispatcher pops is, among those queued at that
\* moment, one of the highest priority and, within that priority, one of the
\* earliest creation time
C4_PopMaiorPrioridade ==
    [][\A op \in fila_operacoes \ fila_operacoes' : \A outra \in fila_operacoes' :
          /\ outra.prioridade <= op.prioridade
          /\ outra.prioridade = op.prioridade =>
                op.timestamp_criacao <= outra.timestamp_criacao]_vars

\* C4 happens: an operation was popped and started ahead of a lower priority
\* operation that was enqueued before it and is still queued
C4_Testemunha ==
    \E uid \in DOMAIN threads_operacao : \E outra \in fila_operacoes :
       outra.uid < uid /\ outra.prioridade < threads_operacao[uid].op.prioridade

\* C5: the operations whose thread was started and has not finished are never
\* more than max_operacoes_simultaneas
C5_ThreadsNoLimite == Cardinality(DOMAIN threads_operacao) <= max_operacoes_simultaneas

\* C9: a load popped while its model is loaded, and an unload popped while
\* its model is unloaded, is discarded: the step that pops it starts no
\* thread, adds nothing to the in-flight operations, changes neither the
\* catalog nor what the backend holds, and no thread ever runs a discarded
\* operation
C9_Redundante(op) ==
    \/ op.tipo = "carregar" /\ status_modelos[op.nome_modelo].status = "carregado"
    \/ op.tipo = "descarregar" /\ status_modelos[op.nome_modelo].status = "descarregado"

C9_DescarteSemEfeito ==
    [][/\ \A op \in fila_operacoes \ fila_operacoes' :
             C9_Redundante(op) =>
                /\ \E d \in descartadas' : d.uid = op.uid
                /\ threads_operacao' = threads_operacao
                /\ operacoes_executando' = operacoes_executando
                /\ varsRegistro' = varsRegistro
                /\ backend_residente' = backend_residente
       /\ \A d \in descartadas : d.uid \notin DOMAIN threads_operacao'
      ]_vars

\* C9 happens: a load was discarded because its model was loaded, and an
\* unload because its model was unloaded
C9_Testemunha ==
    /\ \E d \in descartadas : d.tipo = "carregar" /\ d.status = "carregado"
    /\ \E d \in descartadas : d.tipo = "descarregar" /\ d.status = "descarregado"

\* C10: when the thread of an executed load ends in failure, the catalog
\* holds the model in state erro with the detail of the error
C10_FalhaDeixaErro ==
    [][\A uid \in DOMAIN threads_operacao :
          LET op == threads_operacao[uid].op IN
          (/\ op.tipo = "carregar"
           /\ uid \notin DOMAIN threads_operacao'
           /\ \E h \in operacoes_concluidas' : h.uid = uid /\ ~h.sucesso) =>
             /\ status_modelos'[op.nome_modelo].status = "erro"
             /\ status_modelos'[op.nome_modelo].erro_detalhes # "None"]_vars

\* C11: when the thread of an executed operation ends, the catalog holds the
\* model in carregado or descarregado if it succeeded and in erro if it
\* failed, the operation has left the in-flight operations and entered the
\* history once, and its callback, if it has one, was called exactly once,
\* with (sucesso, nome_modelo, erro)
C11_ConclusaoCompleta ==
    [][\A uid \in DOMAIN threads_operacao :
          uid \notin DOMAIN threads_operacao' =>
             LET op == threads_operacao[uid].op
                 relatos == {h \in operacoes_concluidas' : h.uid = uid}
                 chamadas == {c \in BagToSet(callbacks_chamados') : c.uid = uid}
             IN /\ IdOperacao(op) \notin DOMAIN operacoes_executando'
                /\ Cardinality(relatos) = 1
                /\ \A h \in relatos :
                      /\ status_modelos'[op.nome_modelo].status =
                            IF ~h.sucesso THEN "erro"
                            ELSE IF op.tipo = "descarregar" THEN "descarregado"
                            ELSE "carregado"
                      /\ IF op.callback
                         THEN /\ chamadas = {[uid |-> uid, sucesso |-> h.sucesso,
                                              nome_modelo |-> op.nome_modelo,
                                              erro |-> h.erro]}
                              /\ \A c \in chamadas : CopiesIn(c, callbacks_chamados') = 1
                         ELSE chamadas = {}]_vars

\* C15: a call of preload_preditivo with a probability above
\* fator_preloading enqueues one operation, of kind preload and of the lowest
\* priority; a call with a probability at or below it leaves the queue of
\* operations as it was
C15_PreloadAcimaDoLimiar ==
    [][\A prob \in Probabilidades :
          preload_preditivo(ModeloOrdem, prob, relogio) =>
             IF prob > fator_preloading
             THEN \E op \in fila_operacoes' :
                     /\ fila_operacoes' \ fila_operacoes = {op}
                     /\ fila_operacoes \subseteq fila_operacoes'
                     /\ op.tipo = "preload"
                     /\ op.nome_modelo = ModeloOrdem
                     /\ \A p \in {BAIXA, NORMAL, ALTA, CRITICA} : op.prioridade <= p
             ELSE fila_operacoes' = fila_operacoes]_vars

\* C15 happens: a preload is queued, at the lowest priority, behind an
\* operation of a higher one
C15_Testemunha ==
    \E op \in fila_operacoes : \E outra \in fila_operacoes :
       /\ op.tipo = "preload"
       /\ op.prioridade = BAIXA
       /\ outra.prioridade > op.prioridade


\* C33: no two threads of _processar_operacao work on the same model at the
\* same time
C33_UmaOperacaoPorModelo ==
    \A a, b \in DOMAIN threads_operacao :
        a # b => threads_operacao[a].op.nome_modelo # threads_operacao[b].op.nome_modelo

\* every step of the thread of the operation uid
PassoOperacaoOuFalha(uid) ==
    \/ PassoOperacao(uid)
    \/ CarregarModeloFalha(uid)
    \/ DescarregarModeloFalha(uid)

\* the scheduler is running: its loop and the thread of every executed
\* operation keep going
SpecRetorno ==
    /\ Init
    /\ [][NextAgendador]_vars
    /\ WF_vars(LoopScheduler)
    /\ \A uid \in 1..MaxOperacoes : WF_vars(PassoOperacaoOuFalha(uid))

\* the operation uid waits in the heap with a callback
NaFilaComCallback(uid) == \E op \in fila_operacoes : op.uid = uid /\ op.callback

\* how many times the callback of the operation uid was called
ChamadasDoCallback(uid) ==
    BagCardinality([c \in {x \in BagToSet(callbacks_chamados) : x.uid = uid}
                       |-> CopiesIn(c, callbacks_chamados)])

\* C34: the callback of every operation that was enqueued with one is
\* eventually called, whether the operation is executed or dropped by the
\* validation, and it is never called twice
C34_CallbackChamado ==
    /\ \A uid \in 1..MaxOperacoes : NaFilaComCallback(uid) ~> (ChamadasDoCallback(uid) = 1)
    /\ [](\A uid \in 1..MaxOperacoes : ChamadasDoCallback(uid) <= 1)

(***************************************************************************)
(* The request queue with its monitor                                      *)
(***************************************************************************)
\* the steps of the queue's own threads
PassoFila ==
    \/ ProcessarFilaAguardandoInicio
    \/ ProcessarFilaAguardandoIterar
    \/ ProcessarFilaAguardandoRemover
    \/ LoopDispatcherDespachar
    \/ \E id \in DOMAIN requisicoes : ProcessarRequisicaoConcluir(id)
    \/ \E id \in DOMAIN requisicoes : ProcessarRequisicaoErro(id)
    \/ \E id \in DOMAIN requisicoes : ProcessarRequisicaoFinally(id)
    \/ \E agora \in {relogio, relogio + timeout_padrao + 1} : LoopMonitorFila(agora)

\* callers that submit quick fact checks at the default priority and cancel them;
\* the scheduler is idle, so the catalog stays as built
NextFila ==
    \/ adicionar_requisicao("fact_check_rapido", NORMAL, timeout_padrao, relogio)
    \/ \E id \in 1..MaxRequisicoes : CancelarRequisicaoVerificar(id)
    \/ \E id \in 1..MaxRequisicoes : CancelarRequisicaoEscrever(id)
    \/ AtualizarStatusGPU
    \/ PassoFila

\* the queue never looks at the catalog, so one registry is enough
InitFila == Init /\ registro_expoe_StatusModelo = TRUE

SpecFila == InitFila /\ [][NextFila]_vars

(***************************************************************************)
(* The request queue with room for two workers                             *)
(***************************************************************************)
\* the queue built as GerenciadorFilas(max_concurrent=2, monitor_gpu=monitor)
InitDoisProcessadores == InitComLimite(2) /\ registro_expoe_StatusModelo = TRUE

\* callers that submit and cancel quick fact checks while the dispatcher and
\* the workers run; the monitor loop of the queue has not run yet
NextDoisProcessadores ==
    \/ adicionar_requisicao("fact_check_rapido", NORMAL, timeout_padrao, relogio)
    \/ \E id \in 1..MaxRequisicoes : CancelarRequisicaoVerificar(id)
    \/ \E id \in 1..MaxRequisicoes : CancelarRequisicaoEscrever(id)
    \/ AtualizarStatusGPU
    \/ ProcessarFilaAguardandoInicio
    \/ ProcessarFilaAguardandoIterar
    \/ ProcessarFilaAguardandoRemover
    \/ LoopDispatcherDespachar
    \/ \E id \in DOMAIN requisicoes : ProcessarRequisicaoConcluir(id)
    \/ \E id \in DOMAIN requisicoes : ProcessarRequisicaoErro(id)
    \/ \E id \in DOMAIN requisicoes : ProcessarRequisicaoFinally(id)

SpecDoisProcessadores == InitDoisProcessadores /\ [][NextDoisProcessadores]_vars

\* C37: the counter of active workers is never negative, and it is the
\* number of worker threads alive and the number of entries of
\* requisicoes_ativas
C37_ContadorDeProcessadores ==
    /\ processadores_ativos >= 0
    /\ processadores_ativos = BagCardinality(threads_requisicao)
    /\ processadores_ativos = Cardinality(requisicoes_ativas)

(***************************************************************************)
(* The admission of the requests: priorities, kinds and device memory      *)
(***************************************************************************)
\* callers that submit quick and complete fact checks at two priorities,
\* while other processes come and go on the devices; nobody cancels and the
\* monitor loop of the queue has not run yet
NextAdmissao ==
    \/ \E tipo \in {"fact_check_rapido", "fact_check_completo"}, p \in {NORMAL, ALTA},
          agora \in Agora : adicionar_requisicao(tipo, p, timeout_padrao, agora)
    \/ AtualizarStatusGPU
    \/ \E outros \in OutrosProcessos : AtualizarStatusGPUComOutros(outros)
    \/ ProcessarFilaAguardandoInicio
    \/ ProcessarFilaAguardandoIterar
    \/ ProcessarFilaAguardandoRemover
    \/ LoopDispatcherDespachar
    \/ \E id \in DOMAIN requisicoes : ProcessarRequisicaoConcluir(id)
    \/ \E id \in DOMAIN requisicoes : ProcessarRequisicaoErro(id)
    \/ \E id \in DOMAIN requisicoes : ProcessarRequisicaoFinally(id)

SpecAdmissao == InitFila /\ [][NextAdmissao]_vars

\* C19: a request started from the parked list is one no parked request that
\* could be started too comes before, in the order of priority first and
\* time of creation second
C19_AguardandoMaiorPrioridade ==
    [][\A id \in DOMAIN requisicoes :
          (/\ requisicoes[id].status = "aguardando_recurso"
           /\ requisicoes'[id].status = "processando") =>
             \A outra \in DOMAIN requisicoes :
                (/\ outra # id
                 /\ requisicoes[outra].status = "aguardando_recurso"
                 /\ Contem(fila_aguardando_recurso, outra)
                 /\ _verificar_recursos_disponiveis(outra)) =>
                    ~RequisicaoLt(requisicoes[outra], requisicoes[id])]_vars

\* a device of the last snapshot has this much memory free
AlgumaGPUComLivre(memoria_mb) ==
    \E g \in DOMAIN status_atual : status_atual[g].memoria_livre_mb >= memoria_mb

\* C20: a pendente request the dispatcher takes becomes processando, with
\* the counter of active workers raised by one and its worker started, only
\* if a device of the last snapshot has its estimated memory free; otherwise
\* it becomes aguardando_recurso and joins the parked list, and the
\* dispatcher goes back to the top of its loop
C20_DespachoComMemoria ==
    [][\A id \in DOMAIN requisicoes :
          /\ (/\ requisicoes[id].status = "pendente"
              /\ requisicoes'[id].status = "processando") =>
                /\ AlgumaGPUComLivre(requisicoes[id].memoria_estimada_mb)
                /\ processadores_ativos' = processadores_ativos + 1
                /\ BagIn(<<id, "processando">>, threads_requisicao')
          /\ (/\ id \in fila_pendentes
              /\ id \notin fila_pendentes'
              /\ ~AlgumaGPUComLivre(requisicoes[id].memoria_estimada_mb)) =>
                /\ requisicoes'[id].status = "aguardando_recurso"
                /\ Contem(fila_aguardando_recurso', id)
                /\ pc_dispatcher' = "topo"]_vars

\* C24: when the worker of a request raises, the request becomes erro with
\* the detail of the exception and the instant of its conclusion, and the
\* counter of errors goes up by one; when the worker ends, the counter of
\* active workers goes down by one and the request leaves the active set, so
\* that a queue that was within its limit is below it again
C24_ErroLiberaProcessador ==
    [][\A id \in DOMAIN requisicoes :
          /\ ProcessarRequisicaoErro(id) =>
                /\ requisicoes'[id].status = "erro"
                /\ requisicoes'[id].erro # "None"
                /\ requisicoes'[id].timestamp_conclusao = relogio
                /\ estatisticas'.total_com_erro = estatisticas.total_com_erro + 1
                /\ UNCHANGED <<processadores_ativos, requisicoes_ativas>>
          /\ ProcessarRequisicaoFinally(id) =>
                /\ processadores_ativos' = processadores_ativos - 1
                /\ id \notin requisicoes_ativas'
                /\ processadores_ativos <= max_concurrent => ~NoLimite']_vars

\* C24 happens: the worker of the first request raised and ended, the request
\* is erro and out of the active set, and the dispatcher has started the
\* next request in the slot
C24_Testemunha ==
    /\ 2 \in DOMAIN requisicoes
    /\ requisicoes[1].status = "erro"
    /\ requisicoes[1].erro # "None"
    /\ estatisticas.total_com_erro = 1
    /\ 1 \notin requisicoes_ativas
    /\ requisicoes[2].status = "processando"
    /\ requisicoes_ativas = {2}
    /\ processadores_ativos = 1

\* a request that waits to be served: queued, or parked for resources
EsperaServico(id) ==
    \/ requisicoes[id].status = "pendente" /\ id \in fila_pendentes
    \/ requisicoes[id].status = "aguardando_recurso" /\ Contem(fila_aguardando_recurso, id)

\* C31: when a waiting request is started, no other waiting request that
\* could be started too has a strictly higher priority, or the same priority
\* and an earlier creation (no priority is raised by aging here: the monitor
\* loop of the queue does not run)
C31_InicioPorPrioridade ==
    [][\A id \in DOMAIN requisicoes :
          (/\ EsperaServico(id)
           /\ requisicoes'[id].status = "processando") =>
             \A outra \in DOMAIN requisicoes :
                (/\ outra # id
                 /\ EsperaServico(outra)
                 /\ _verificar_recursos_disponiveis(outra)) =>
                    ~RequisicaoLt(requisicoes[outra], requisicoes[id])]_vars

(***************************************************************************)
(* The requests that wait: aging and timeouts                              *)
(***************************************************************************)
\* is some submitted request neither finished nor past its timeout
AlgumaNoPrazo ==
    \E id \in DOMAIN requisicoes :
       /\ requisicoes[id].status \in {"pendente", "aguardando_recurso", "processando"}
       /\ relogio - requisicoes[id].timestamp_criacao <= requisicoes[id].timeout

\* the instants at which an iteration of _loop_monitor may run: now, or, while
\* a request is still within its timeout, after the timeout has gone by
InstantesDaVarredura ==
    IF AlgumaNoPrazo THEN {relogio, relogio + timeout_padrao + 1} ELSE {relogio}

\* the iterations are followed until the counter of timeouts has passed the
\* number of the requests
ContadorNoLimite == estatisticas.total_timeout <= MaxRequisicoes

\* an iteration of _loop_monitor of the queue
Varredura ==
    /\ ContadorNoLimite
    /\ \E agora \in InstantesDaVarredura :
          LoopMonitorFila(agora) \/ LoopMonitorFilaCheio(agora)

\* the thread of _loop_dispatcher
PassoDispatcher ==
    \/ ProcessarFilaAguardandoInicio
    \/ ProcessarFilaAguardandoIterar
    \/ ProcessarFilaAguardandoRemover
    \/ LoopDispatcherDespachar

\* callers that submit quick fact checks at the two lower priorities; the
\* device monitor may or may not have polled, workers may take any time
NextEspera ==
    \/ \E p \in {BAIXA, NORMAL} :
          adicionar_requisicao("fact_check_rapido", p, timeout_padrao, relogio)
    \/ AtualizarStatusGPU
    \/ ProcessarFilaAguardandoInicio
    \/ ProcessarFilaAguardandoIterar
    \/ ProcessarFilaAguardandoRemover
    \/ LoopDispatcherDespachar
    \/ \E id \in DOMAIN requisicoes : ProcessarRequisicaoConcluir(id)
    \/ \E id \in DOMAIN requisicoes : ProcessarRequisicaoErro(id)
    \/ \E id \in DOMAIN requisicoes : ProcessarRequisicaoFinally(id)
    \/ ContadorNoLimite /\ \E agora \in InstantesDaVarredura : LoopMonitorFila(agora)
    \/ ContadorNoLimite /\ \E agora \in InstantesDaVarredura : LoopMonitorFilaCheio(agora)

\* the dispatcher and the monitor loop of the queue keep running
SpecEspera ==
    /\ InitFila
    /\ [][NextEspera]_vars
    /\ WF_vars(PassoDispatcher)
    /\ WF_vars(Varredura)

\* the band above a priority
ProximaFaixa(prioridade) ==
    CASE prioridade = BAIXA -> NORMAL
      [] prioridade = NORMAL -> ALTA
      [] OTHER -> CRITICA

Estacionada(id) ==
    /\ requisicoes[id].status = "aguardando_recurso"
    /\ Contem(fila_aguardando_recurso, id)

\* C21: the priority of a request changes only by one band upwards at a
\* time, and an iteration of the monitor loop, the first as any later one,
\* raises to NORMAL a request of priority BAIXA it finds parked for longer
\* than espera_maxima
C21_EnvelhecimentoPorFaixa ==
    [][\A id \in DOMAIN requisicoes :
          /\ requisicoes'[id].prioridade \in
                {requisicoes[id].prioridade, ProximaFaixa(requisicoes[id].prioridade)}
          /\ (/\ Varredura
              /\ Estacionada(id)
              /\ requisicoes[id].prioridade = BAIXA
              /\ relogio' - requisicoes[id].timestamp_criacao > espera_maxima) =>
                requisicoes'[id].prioridade = NORMAL]_vars

\* the request waits for a worker
EmEspera(id) ==
    /\ id \in DOMAIN requisicoes
    /\ requisicoes[id].status \in {"pendente", "aguardando_recurso"}

\* the request waits for a worker and its timeout has gone by
EsperaVencida(id) ==
    /\ EmEspera(id)
    /\ relogio - requisicoes[id].timestamp_criacao > requisicoes[id].timeout

\* C22: a request that is pendente or aguardando_recurso when its timeout has
\* gone by does not wait for ever: unless it is started or cancelled after
\* all, it ends in timeout (as long as the iterations of the monitor loop are
\* followed)
C22_EsperaVencidaExpira ==
    \A id \in 1..MaxRequisicoes :
       EsperaVencida(id) ~> (~EmEspera(id) \/ ~ContadorNoLimite)

\* the requests a step moves to timeout
MovidasParaTimeout ==
    {id \in DOMAIN requisicoes :
        requisicoes[id].status # "timeout" /\ requisicoes'[id].status = "timeout"}

\* C23: an iteration of the monitor loop that finds a request processando
\* and older than its timeout moves it to timeout and stamps its conclusion
\* with the instant of the iteration, and the counter of timeouts goes up by
\* one for each request moved to timeout, and only then
C23_TimeoutDaAtiva ==
    [][/\ \A id \in DOMAIN requisicoes :
             (/\ Varredura
              /\ requisicoes[id].status = "processando"
              /\ id \in requisicoes_ativas
              /\ relogio' - requisicoes[id].timestamp_criacao > requisicoes[id].timeout) =>
                /\ requisicoes'[id].status = "timeout"
                /\ requisicoes'[id].timestamp_conclusao = relogio'
       /\ estatisticas'.total_timeout =
             estatisticas.total_timeout + Cardinality(MovidasParaTimeout)]_vars

(***************************************************************************)
(* Properties of the request queue                                         *)
(***************************************************************************)
Terminal(status) == status \in {"concluida", "erro", "timeout", "cancelada"}

\* C2: a request in a terminal state never re-enters a non-terminal state
C2_TerminalNaoVolta ==
    [][\A id \in DOMAIN requisicoes :
          Terminal(requisicoes[id].status) => Terminal(requisicoes'[id].status)]_vars

\* C35: a request in a terminal state that stays in a terminal state keeps
\* that state and the instant of its conclusion
C35_TerminalDefinitivo ==
    [][\A id \in DOMAIN requisicoes :
          (Terminal(requisicoes[id].status) /\ Terminal(requisicoes'[id].status)) =>
             /\ requisicoes'[id].status = requisicoes[id].status
             /\ requisicoes'[id].timestamp_conclusao =
                   requisicoes[id].timestamp_conclusao]_vars

\* how many worker threads of the request id are alive
ThreadsDaRequisicao(threads, id) ==
    CopiesIn(<<id, "processando">>, threads) + CopiesIn(<<id, "finalizando">>, threads)

\* C36: a worker is started only for a request that was never started
\* before, and at the top of the dispatcher's loop no request that was
\* started is in the parked list
C36_UmaExecucaoPorRequisicao ==
    /\ [][\A id \in DOMAIN requisicoes :
            ThreadsDaRequisicao(threads_requisicao', id)
               > ThreadsDaRequisicao(threads_requisicao, id) =>
                  requisicoes[id].timestamp_inicio = SemTempo]_vars
    /\ [](pc_dispatcher = "topo" =>
            \A id \in DOMAIN requisicoes :
               Contem(fila_aguardando_recurso, id) =>
                  requisicoes[id].timestamp_inicio = SemTempo)

\* C6: the counter of active workers and the number of requests in state
\* processando never exceed max_concurrent
C6_NoMaximoConcorrentes ==
    /\ processadores_ativos <= max_concurrent
    /\ Cardinality({id \in DOMAIN requisicoes :
                       requisicoes[id].status = "processando"}) <= max_concurrent

\* C6 happens: with max_concurrent workers active, the loop over the parked
\* requests stopped before a request it had still to try
C6_Testemunha ==
    /\ processadores_ativos = max_concurrent
    /\ pc_dispatcher = "remover"
    /\ iterador <= Len(fila_aguardando_recurso)
    /\ \E id \in DOMAIN requisicoes : requisicoes[id].status = "processando"

\* C7: a call of cancelar_requisicao that finds the request in pendente or
\* aguardando_recurso goes on to set it to cancelada, count it, take it off
\* the parked list and return True; a call for an unknown id or a request in
\* any other state returns False and changes nothing
C7_CancelarSoEmEspera ==
    [][\A id \in 1..MaxRequisicoes :
          /\ CancelarRequisicaoVerificar(id) =>
                IF /\ id \in DOMAIN requisicoes
                   /\ requisicoes[id].status \in {"pendente", "aguardando_recurso"}
                THEN id \in cancelando'
                ELSE /\ retorno_cancelar' = [id |-> id, valor |-> FALSE]
                     /\ UNCHANGED <<requisicoes, fila_pendentes, fila_aguardando_recurso,
                                    requisicoes_ativas, estatisticas, cancelando>>
          /\ CancelarRequisicaoEscrever(id) =>
                /\ retorno_cancelar' = [id |-> id, valor |-> TRUE]
                /\ requisicoes'[id].status = "cancelada"
                /\ estatisticas'.total_canceladas = estatisticas.total_canceladas + 1
                /\ ~Contem(fila_aguardando_recurso', id)]_vars

\* C7 happens: a request was cancelled and counted once, and a later call
\* for the same request returned False
C7_Testemunha ==
    /\ retorno_cancelar.valor = FALSE
    /\ retorno_cancelar.id \in DOMAIN requisicoes
    /\ requisicoes[retorno_cancelar.id].status = "cancelada"
    /\ estatisticas.total_canceladas = 1

\* C8: a request is in state processando only while every model it needs
\* that the catalog knows is loaded
C8_ProcessandoComModelos ==
    \A id \in DOMAIN requisicoes :
       requisicoes[id].status = "processando" =>
          \A m \in requisicoes[id].modelos_necessarios \cap DOMAIN status_modelos :
             status_modelos[m].status = "carregado"

====
